---- MODULE Spec2Model ----
(***************************************************************************)
(* ChainMail: the on-chain ledger contract (contracts/ChainMail.sol) as a  *)
(* state machine.  Every action is one transaction: the EVM executes       *)
(* transactions one at a time, and a failed require reverts the whole      *)
(* transaction, so a reverted call leaves the storage and the event log    *)
(* as they were and only its receipt (tx) tells that it happened.          *)
(*                                                                         *)
(* Around the contract, the web application: the browser of each account   *)
(* (wallet cookie, localStorage), the content store, the relay endpoints   *)
(* and the client calls handleLogin, sendEmail and fetchAndDecryptEmail.   *)
(***************************************************************************)
EXTENDS Integers, Sequences, FiniteSets, TLC

\* ------------------------------------------------------------------ bounds

\* Submissions the model lets succeed.
MaxEmails == 2
\* Successful key registrations the model lets happen.
MaxKeyRegs == 1
\* The key registry on its own (KeySpec): successful key registrations, and
\* successful submissions next to them.
MaxKeyUpdates == 2
MaxKeySpecEmails == 0
\* The application (MailSpec): successful submissions and key registrations.
MaxMailEmails == 1
MaxMailKeyRegs == 1
MaxRelayEmails == 1
MaxRelayKeyRegs == 1

\* The balance below which the relay routes refuse to send (0.001 BDAG),
\* in ten-thousandths of a BDAG.
MinRelayBalance == 10

\* ------------------------------------------------------------------ values

\* address(0)
Zero == "0x0"
\* Externally owned accounts.  msg.sender of a transaction is one of them:
\* nobody holds the key of address(0), so it never sends a transaction.
Accounts == {"addrA", "addrB"}
Addresses == Accounts \cup {Zero}
\* string arguments: the empty string and a content id / an armored key.
IpfsHashes == {"", "cid1"}
PublicKeyStrings == {"", "keyA"}
\* block.timestamp values; the contract is deployed at the first of them.
BlockTimestamps == {1, 2}
DeployTimestamp == 1

\* What one specification explores: the caps on successful writes and the
\* argument values transactions are drawn from.
LedgerScope ==
    [maxEmails |-> MaxEmails, maxKeyRegs |-> MaxKeyRegs,
     ipfsHashes |-> IpfsHashes, publicKeyStrings |-> PublicKeyStrings,
     blockTimestamps |-> BlockTimestamps]

\* The address of the wallet the relay endpoints sign with
\* (process.env.RELAY_WALLET_PRIVATE_KEY): a server, not a user.
RelayWallet == "addrRelay"

\* The armored PGP public keys openpgp.generateKey can return, and the
\* armored private key that belongs to each.
PgpKeyIds == {"keyA", "keyB"}
PgpPrivateKeyOf == [keyA |-> "pgpPrivateKeyA", keyB |-> "pgpPrivateKeyB"]

\* What ethers gives for each account: its private key, its mnemonic
\* phrase, its signing public key; and its address at the mail domain.
WalletPrivateKeyOf ==
    [addrA |-> "walletPrivateKeyA", addrB |-> "walletPrivateKeyB"]
MnemonicOf == [addrA |-> "mnemonicA", addrB |-> "mnemonicB"]
SigningKeyOf == [addrA |-> "signingKeyA", addrB |-> "signingKeyB"]
EmailOf ==
    [addrA |-> "addrA@blockdag.mailchain", addrB |-> "addrB@blockdag.mailchain"]

\* What users write.
Subjects == {"subject1"}
Bodies == {"body1"}

\* The content ids the pinning service can hand out.
ContentIds == {"cid1", "cid2"}

\* Nothing there: no wallet cookie, an empty localStorage, nothing pinned
\* under a cid, no request at the relay (process.env not read, no answer),
\* no client call.
NoCookie == [name |-> "none"]
NoItem == [item |-> "null"]
NoItems == [wallet |-> NoItem, pgpKeys |-> NoItem]
NotPinned == [pinned |-> FALSE]
NoContent == [content |-> "none"]
NoRequest == [endpoint |-> "none"]
NoEnv == [env |-> "unread"]
NoResponse == [status |-> 0]
NoCall == [fn |-> "none", pc |-> "done"]
NoPolling ==
    [pollingInterval |-> 0, lastProcessedBlock |-> 0, intervals |-> {},
     calls |-> <<>>, ticks |-> <<>>]
NoRun == [pc |-> "free", newEmailIds |-> <<>>, newEmails |-> <<>>]
NoPoll ==
    [intervalId |-> "none", recipientAddress |-> "", lastEmailCount |-> 0,
     runs |-> <<>>, callbacks |-> <<>>, readFailures |-> 0]

\* The default value of an unset mapping(uint256 => Email) slot.
NoEmail ==
    [sender |-> Zero, recipient |-> Zero, ipfsHash |-> "",
     timestamp |-> 0, isImmutable |-> FALSE]

VARIABLES
    emails,            \* mapping(uint256 => Email): the slots written so far
    emailCount,        \* uint256
    recipientEmails,   \* mapping(address => uint256[])
    senderEmails,      \* mapping(address => uint256[])
    publicKeys,        \* mapping(address => string)
    owner,             \* address
    relayAddress,      \* address
    emailSentLog,      \* the EmailSent events emitted so far, in order
    publicKeyRegisteredLog, \* the PublicKeyRegistered events emitted so far
    blockTimestamp,    \* block.timestamp of the block being built
    tx,                \* the transaction just executed (its receipt), or NoTx
    cookieJar,         \* document.cookie of each account's browser
    localStorage,      \* window.localStorage of each account's browser
    pgpGenerated,      \* who generated each PGP key pair ("" = nobody yet)
    ipfs,              \* the content store: what is pinned under each cid
    relayInbox,        \* the request a relay endpoint is handling
    call,              \* the client call in progress, or the last one
    fetched,           \* what the last read call of EmailService returned
    poll,              \* the closure of pollForNewEmails and its runs of poll()
    polling            \* BlockchainService.pollingInterval, lastProcessedBlock
                       \* and the calls of startPollingForEmails

\* Contract storage.
storage ==
    <<emails, emailCount, recipientEmails, senderEmails, publicKeys,
      owner, relayAddress>>
\* Storage and event log: everything a reverted transaction must leave alone.
ledger == <<storage, emailSentLog, publicKeyRegisteredLog>>
\* The application around the contract.
client ==
    <<cookieJar, localStorage, pgpGenerated, ipfs, relayInbox, call, fetched,
      poll, polling>>
vars == <<ledger, blockTimestamp, tx, client>>

\* Reading mapping(uint256 => Email) emails: an unset slot reads as zeroes.
emailsAt(emailId) ==
    IF emailId \in DOMAIN emails THEN emails[emailId] ELSE NoEmail

\* ---------------------------------------------------------------- receipts

\* No transaction is waiting for its receipt.
NoTx == [op |-> "none"]

\* What the sender of a transaction gets back: the call, whether it reverted
\* and with which reason, and the value the function returned.
Receipt(op, caller, args, reason, ret) ==
    [op |-> op, caller |-> caller, args |-> args,
     ok |-> (reason = ""), reason |-> reason, ret |-> ret,
     timestamp |-> blockTimestamp]

\* A failed require: the transaction reverts, nothing but the receipt changes.
Revert(op, caller, args, reason) ==
    /\ tx' = Receipt(op, caller, args, reason, 0)
    /\ UNCHANGED ledger

\* The first failing require of a chain ("" when all pass).
FirstFailure(reasons) ==
    IF \E i \in 1..Len(reasons) : reasons[i] # ""
    THEN reasons[CHOOSE i \in 1..Len(reasons) :
                    /\ reasons[i] # ""
                    /\ \A j \in 1..(i-1) : reasons[j] = ""]
    ELSE ""

\* ---------------------------------------------------------------- modifiers

\* Mutant: the relay passes the owner check too.
onlyOwner_OrRelay(caller) ==
    IF caller = owner \/ caller = relayAddress THEN "" ELSE "Not contract owner"

\* require(msg.sender == owner, "Not contract owner")
onlyOwner(caller) == IF caller = owner THEN "" ELSE "Not contract owner"

\* Mutant: the owner passes the relay check too.
onlyRelay_OrOwner(caller) ==
    IF caller = relayAddress \/ caller = owner THEN "" ELSE "Not authorized relay"

\* require(msg.sender == relayAddress, "Not authorized relay")
onlyRelay(caller) == IF caller = relayAddress THEN "" ELSE "Not authorized relay"

\* ------------------------------------------------------------- constructor

\* constructor(address _relayAddress): owner = msg.sender, relayAddress as
\* given (not checked against address(0)); every mapping is empty.  The
\* deployer is one of `deployers`, the argument one of `relays`.  Nobody has
\* opened the application yet.
Deployed(deployers, relays) ==
    /\ emails = <<>>
    /\ emailCount = 0
    /\ recipientEmails = [a \in Addresses |-> <<>>]
    /\ senderEmails = [a \in Addresses |-> <<>>]
    /\ publicKeys = [a \in Addresses |-> ""]
    /\ owner \in deployers
    /\ relayAddress \in relays
    /\ emailSentLog = <<>>
    /\ publicKeyRegisteredLog = <<>>
    /\ blockTimestamp = DeployTimestamp
    /\ tx = [op |-> "constructor", caller |-> owner,
             args |-> [relayAddress |-> relayAddress],
             ok |-> TRUE, reason |-> "", ret |-> 0,
             timestamp |-> DeployTimestamp]
    /\ cookieJar = [a \in Accounts |-> NoCookie]
    /\ localStorage = [a \in Accounts |-> NoItems]
    /\ pgpGenerated = [k \in PgpKeyIds |-> ""]
    /\ ipfs = [cid \in ContentIds |-> NotPinned]
    /\ relayInbox = NoRequest
    /\ call = NoCall
    /\ fetched = NoCall
    /\ poll = NoPoll
    /\ polling = NoPolling

Init == Deployed(Accounts, Addresses)

\* ------------------------------------------------------------------- admin

\* onlyOwner, then require(_relayAddress != address(0), ...)
setRelayAddressRequire(caller, newRelay) ==
    FirstFailure(<<onlyOwner(caller),
                   IF newRelay # Zero THEN "" ELSE "Invalid relay address">>)

\* Mutant: the assignment goes to owner instead of relayAddress.
setRelayAddress_AssignsOwner(caller, newRelay) ==
    LET args == [relayAddress |-> newRelay]
        reason == setRelayAddressRequire(caller, newRelay)
    IN  IF reason # ""
        THEN Revert("setRelayAddress", caller, args, reason)
        ELSE /\ owner' = newRelay
             /\ tx' = Receipt("setRelayAddress", caller, args, "", 0)
             /\ UNCHANGED <<emails, emailCount, recipientEmails, senderEmails,
                            publicKeys, relayAddress, emailSentLog,
                            publicKeyRegisteredLog>>

setRelayAddress(caller, newRelay) ==
    LET args == [relayAddress |-> newRelay]
        reason == setRelayAddressRequire(caller, newRelay)
    IN  IF reason # ""
        THEN Revert("setRelayAddress", caller, args, reason)
        ELSE /\ relayAddress' = newRelay
             /\ tx' = Receipt("setRelayAddress", caller, args, "", 0)
             /\ UNCHANGED <<emails, emailCount, recipientEmails, senderEmails,
                            publicKeys, owner, emailSentLog,
                            publicKeyRegisteredLog>>

\* Mutant: the new owner is not checked against address(0).
transferOwnershipRequire_NoZeroCheck(caller, newOwner) == onlyOwner(caller)

\* onlyOwner, then require(_newOwner != address(0), ...)
transferOwnershipRequire(caller, newOwner) ==
    FirstFailure(<<onlyOwner(caller),
                   IF newOwner # Zero THEN "" ELSE "Invalid owner address">>)

\* Mutant: handing over ownership also makes the new owner the relay.
transferOwnership_TakesRelay(caller, newOwner) ==
    LET args == [newOwner |-> newOwner]
        reason == transferOwnershipRequire(caller, newOwner)
    IN  IF reason # ""
        THEN Revert("transferOwnership", caller, args, reason)
        ELSE /\ owner' = newOwner
             /\ relayAddress' = newOwner
             /\ tx' = Receipt("transferOwnership", caller, args, "", 0)
             /\ UNCHANGED <<emails, emailCount, recipientEmails, senderEmails,
                            publicKeys, emailSentLog,
                            publicKeyRegisteredLog>>

transferOwnership(caller, newOwner) ==
    LET args == [newOwner |-> newOwner]
        reason == transferOwnershipRequire(caller, newOwner)
    IN  IF reason # ""
        THEN Revert("transferOwnership", caller, args, reason)
        ELSE /\ owner' = newOwner
             /\ tx' = Receipt("transferOwnership", caller, args, "", 0)
             /\ UNCHANGED <<emails, emailCount, recipientEmails, senderEmails,
                            publicKeys, relayAddress, emailSentLog,
                            publicKeyRegisteredLog>>

\* ------------------------------------------------------------- submissions

\* Mutant: the recipient is not checked against address(0).
logEmailRequire_NoRecipientCheck(sender, recipient, ipfsHash) ==
    FirstFailure(<<IF sender # Zero THEN "" ELSE "Invalid sender address",
                   IF ipfsHash # "" THEN "" ELSE "IPFS hash cannot be empty">>)

\* Mutant: a record with the same sender, recipient and pointer is refused.
logEmailRequire_RejectsDuplicate(sender, recipient, ipfsHash) ==
    FirstFailure(<<IF sender # Zero THEN "" ELSE "Invalid sender address",
                   IF recipient # Zero THEN "" ELSE "Invalid recipient address",
                   IF ipfsHash # "" THEN "" ELSE "IPFS hash cannot be empty",
                   IF \E k \in DOMAIN emails :
                          /\ emails[k].sender = sender
                          /\ emails[k].recipient = recipient
                          /\ emails[k].ipfsHash = ipfsHash
                   THEN "Duplicate email" ELSE "">>)

\* The three requires of _logEmail, in order.
logEmailRequire(sender, recipient, ipfsHash) ==
    FirstFailure(<<IF sender # Zero THEN "" ELSE "Invalid sender address",
                   IF recipient # Zero THEN "" ELSE "Invalid recipient address",
                   IF ipfsHash # "" THEN "" ELSE "IPFS hash cannot be empty">>)

\* Mutant: the increment is missing.
IncrementedEmailCount_Forgotten == emailCount

\* emailCount++
IncrementedEmailCount == emailCount + 1

\* Mutant: the id is read before the increment.
AssignedEmailId_BeforeIncrement(newCount) == newCount - 1

\* uint256 emailId = emailCount, read after the increment
AssignedEmailId(newCount) == newCount

\* Mutant: sender and recipient are stored in each other's field.
NewEmail_SwappedParties(sender, recipient, ipfsHash) ==
    [sender |-> recipient, recipient |-> sender, ipfsHash |-> ipfsHash,
     timestamp |-> blockTimestamp, isImmutable |-> TRUE]

\* Email({sender, recipient, ipfsHash, timestamp: block.timestamp,
\*        isImmutable: true})
NewEmail(sender, recipient, ipfsHash) ==
    [sender |-> sender, recipient |-> recipient, ipfsHash |-> ipfsHash,
     timestamp |-> blockTimestamp, isImmutable |-> TRUE]

\* emails[emailId] = email
StoreEmail(emailId, email) ==
    [id \in DOMAIN emails \cup {emailId} |->
        IF id = emailId THEN email ELSE emails[id]]

\* Mutant: the id is put in front of the recipient's list.
PushRecipientEmail_Prepend(recipient, emailId) ==
    [recipientEmails EXCEPT ![recipient] = <<emailId>> \o @]

\* Mutant: the id is pushed twice.
PushRecipientEmail_Twice(recipient, emailId) ==
    [recipientEmails EXCEPT ![recipient] = Append(Append(@, emailId), emailId)]

\* recipientEmails[_recipient].push(emailId)
PushRecipientEmail(recipient, emailId) ==
    [recipientEmails EXCEPT ![recipient] = Append(@, emailId)]

\* Mutant: the id is put in front of the sender's list.
PushSenderEmail_Prepend(sender, emailId) ==
    [senderEmails EXCEPT ![sender] = <<emailId>> \o @]

\* Mutant: the sender's list is replaced by the new id.
PushSenderEmail_Overwrites(sender, emailId) ==
    [senderEmails EXCEPT ![sender] = <<emailId>>]

\* senderEmails[_sender].push(emailId)
PushSenderEmail(sender, emailId) ==
    [senderEmails EXCEPT ![sender] = Append(@, emailId)]

\* Mutant: the event names the parties the wrong way round.
EmailSent_SwappedParties(emailId, sender, recipient, ipfsHash) ==
    [emailId |-> emailId, sender |-> recipient, recipient |-> sender,
     ipfsHash |-> ipfsHash, timestamp |-> blockTimestamp]

\* emit EmailSent(emailId, _sender, _recipient, _ipfsHash, block.timestamp)
EmailSent(emailId, sender, recipient, ipfsHash) ==
    [emailId |-> emailId, sender |-> sender, recipient |-> recipient,
     ipfsHash |-> ipfsHash, timestamp |-> blockTimestamp]

\* _logEmail, entered from `op` (logSend or logSendFor) once `guard`, the
\* entry point's modifier, has been evaluated.
logEmail(op, caller, args, guard, sender, recipient, ipfsHash) ==
    LET reason == FirstFailure(<<guard,
                                 logEmailRequire(sender, recipient, ipfsHash)>>)
        newCount == IncrementedEmailCount
        emailId == AssignedEmailId(newCount)
    IN  IF reason # ""
        THEN Revert(op, caller, args, reason)
        ELSE /\ emailCount' = newCount
             /\ emails' = StoreEmail(emailId,
                                     NewEmail(sender, recipient, ipfsHash))
             /\ recipientEmails' = PushRecipientEmail(recipient, emailId)
             /\ senderEmails' = PushSenderEmail(sender, emailId)
             /\ emailSentLog' = Append(emailSentLog,
                             EmailSent(emailId, sender, recipient, ipfsHash))
             /\ tx' = Receipt(op, caller, args, "", emailId)
             /\ UNCHANGED <<publicKeys, owner, relayAddress,
                            publicKeyRegisteredLog>>

\* function logSend(address _recipient, string _ipfsHash): sender = msg.sender
logSend(caller, recipient, ipfsHash) ==
    logEmail("logSend", caller,
             [recipient |-> recipient, ipfsHash |-> ipfsHash],
             "", caller, recipient, ipfsHash)

\* function logSendFor(address _sender, address _recipient, string _ipfsHash)
\* onlyRelay
logSendFor(caller, sender, recipient, ipfsHash) ==
    logEmail("logSendFor", caller,
             [sender |-> sender, recipient |-> recipient, ipfsHash |-> ipfsHash],
             onlyRelay(caller), sender, recipient, ipfsHash)

\* ------------------------------------------------------------ key registry

\* Mutant: the empty key is not refused.
setPublicKeyRequire_AcceptsEmptyKey(user, publicKey) ==
    IF user # Zero THEN "" ELSE "Invalid user address"

\* Mutant: address(0) is not refused.
setPublicKeyRequire_AcceptsZeroUser(user, publicKey) ==
    IF publicKey # "" THEN "" ELSE "Public key cannot be empty"

\* The two requires of _setPublicKey, in order.
setPublicKeyRequire(user, publicKey) ==
    FirstFailure(<<IF user # Zero THEN "" ELSE "Invalid user address",
                   IF publicKey # "" THEN "" ELSE "Public key cannot be empty">>)

\* Mutant: the event carries the key the account had before.
PublicKeyRegistered_PreviousKey(user, publicKey) ==
    [user |-> user, publicKey |-> publicKeys[user],
     timestamp |-> blockTimestamp]

\* emit PublicKeyRegistered(_user, _publicKey, block.timestamp)
PublicKeyRegistered(user, publicKey) ==
    [user |-> user, publicKey |-> publicKey, timestamp |-> blockTimestamp]

\* Mutant: a key already registered is kept (first write wins).
setPublicKey_KeepsFirstKey(op, caller, args, guard, user, publicKey) ==
    LET reason == FirstFailure(<<guard, setPublicKeyRequire(user, publicKey)>>)
    IN  IF reason # ""
        THEN Revert(op, caller, args, reason)
        ELSE /\ publicKeys' = [publicKeys EXCEPT
                                 ![user] = IF @ = "" THEN publicKey ELSE @]
             /\ publicKeyRegisteredLog' = Append(publicKeyRegisteredLog,
                             PublicKeyRegistered(user, publicKey))
             /\ tx' = Receipt(op, caller, args, "", 0)
             /\ UNCHANGED <<emails, emailCount, recipientEmails, senderEmails,
                            owner, relayAddress, emailSentLog>>

\* _setPublicKey, entered from `op` once `guard` has been evaluated.
setPublicKey(op, caller, args, guard, user, publicKey) ==
    LET reason == FirstFailure(<<guard, setPublicKeyRequire(user, publicKey)>>)
    IN  IF reason # ""
        THEN Revert(op, caller, args, reason)
        ELSE /\ publicKeys' = [publicKeys EXCEPT ![user] = publicKey]
             /\ publicKeyRegisteredLog' = Append(publicKeyRegisteredLog,
                             PublicKeyRegistered(user, publicKey))
             /\ tx' = Receipt(op, caller, args, "", 0)
             /\ UNCHANGED <<emails, emailCount, recipientEmails, senderEmails,
                            owner, relayAddress, emailSentLog>>

\* function registerPublicKey(string _publicKey): user = msg.sender
registerPublicKey(caller, publicKey) ==
    setPublicKey("registerPublicKey", caller, [publicKey |-> publicKey],
                 "", caller, publicKey)

\* Mutant: the onlyRelay modifier is missing.
registerPublicKeyFor_NoModifier(caller, user, publicKey) ==
    setPublicKey("registerPublicKeyFor", caller,
                 [user |-> user, publicKey |-> publicKey],
                 "", user, publicKey)

\* function registerPublicKeyFor(address _user, string _publicKey) onlyRelay
registerPublicKeyFor(caller, user, publicKey) ==
    setPublicKey("registerPublicKeyFor", caller,
                 [user |-> user, publicKey |-> publicKey],
                 onlyRelay(caller), user, publicKey)

\* ------------------------------------------------------------------- reads

\* View functions: evaluated on the current state, changing nothing.
getRecipientEmails(recipient) == recipientEmails[recipient]

getSenderEmails(sender) == senderEmails[sender]

\* Mutant: >= 0 in place of > 0.
getEmailRequire_AcceptsZero(emailId) ==
    IF emailId >= 0 /\ emailId <= emailCount THEN "" ELSE "Invalid email ID"

\* require(_emailId > 0 && _emailId <= emailCount, "Invalid email ID")
getEmailRequire(emailId) ==
    IF emailId > 0 /\ emailId <= emailCount THEN "" ELSE "Invalid email ID"

getEmail(emailId) ==
    IF getEmailRequire(emailId) # ""
    THEN [ok |-> FALSE, reason |-> getEmailRequire(emailId)]
    ELSE [ok |-> TRUE,
          sender |-> emailsAt(emailId).sender,
          recipient |-> emailsAt(emailId).recipient,
          ipfsHash |-> emailsAt(emailId).ipfsHash,
          timestamp |-> emailsAt(emailId).timestamp,
          isImmutable |-> emailsAt(emailId).isImmutable]

getPublicKey(user) == publicKeys[user]

getTotalEmails == emailCount

\* ------------------------------------------------------------------- steps

\* The model's caps on the state a step may reach.
WithinScope(S) ==
    /\ emailCount' <= S.maxEmails
    /\ Len(emailSentLog') <= S.maxEmails
    /\ Len(publicKeyRegisteredLog') <= S.maxKeyRegs

\* The sender has its receipt (tx.wait() returned); the chain takes up the
\* next transaction.  Transactions execute one at a time.
ReceiptDelivered ==
    /\ tx # NoTx
    /\ tx' = NoTx
    /\ UNCHANGED <<ledger, blockTimestamp, client>>

\* A new block starts: block.timestamp grows.  The transactions of one
\* block share its timestamp.
MineBlock(S) ==
    /\ tx = NoTx
    /\ \E t \in S.blockTimestamps :
          /\ t > blockTimestamp
          /\ blockTimestamp' = t
    /\ UNCHANGED <<ledger, tx, client>>

LogSendStep(S) ==
    /\ tx = NoTx
    /\ \E c \in Accounts, r \in Addresses, p \in S.ipfsHashes : logSend(c, r, p)
    /\ WithinScope(S)
    /\ UNCHANGED <<blockTimestamp, client>>

LogSendForStep(S) ==
    /\ tx = NoTx
    /\ \E c \in Accounts, s \in Addresses, r \in Addresses, p \in S.ipfsHashes :
          logSendFor(c, s, r, p)
    /\ WithinScope(S)
    /\ UNCHANGED <<blockTimestamp, client>>

RegisterPublicKeyStep(S) ==
    /\ tx = NoTx
    /\ \E c \in Accounts, k \in S.publicKeyStrings : registerPublicKey(c, k)
    /\ WithinScope(S)
    /\ UNCHANGED <<blockTimestamp, client>>

RegisterPublicKeyForStep(S) ==
    /\ tx = NoTx
    /\ \E c \in Accounts, u \in Addresses, k \in S.publicKeyStrings :
          registerPublicKeyFor(c, u, k)
    /\ WithinScope(S)
    /\ UNCHANGED <<blockTimestamp, client>>

SetRelayAddressStep ==
    /\ tx = NoTx
    /\ \E c \in Accounts, n \in Addresses : setRelayAddress(c, n)
    /\ UNCHANGED <<blockTimestamp, client>>

TransferOwnershipStep ==
    /\ tx = NoTx
    /\ \E c \in Accounts, n \in Addresses : transferOwnership(c, n)
    /\ UNCHANGED <<blockTimestamp, client>>

LedgerNext(S) ==
    \/ ReceiptDelivered
    \/ MineBlock(S)
    \/ LogSendStep(S)
    \/ LogSendForStep(S)
    \/ RegisterPublicKeyStep(S)
    \/ RegisterPublicKeyForStep(S)
    \/ SetRelayAddressStep
    \/ TransferOwnershipStep

Next == LedgerNext(LedgerScope)

Spec == Init /\ [][Next]_vars

\* The same contract explored for its key registry: two armored keys, so
\* that a key can be replaced by a different one.
KeyScope ==
    [maxEmails |-> MaxKeySpecEmails, maxKeyRegs |-> MaxKeyUpdates,
     ipfsHashes |-> IpfsHashes, publicKeyStrings |-> {"", "keyA", "keyB"},
     blockTimestamps |-> BlockTimestamps]

KeyNext == LedgerNext(KeyScope)

KeySpec == Init /\ [][KeyNext]_vars

\* ------------------------------------------------------------ conversions

\* JSON.stringify / JSON.parse and encodeURIComponent / decodeURIComponent:
\* the text is not the value, and only the matching reader gives it back.
JsonStringify(v) == [json |-> v]
JsonParse(text) == text.json
encodeURIComponent(text) == [uriComponent |-> text]
decodeURIComponent(text) == text.uriComponent

\* The last element of a non-empty sequence.
Last(q) == q[Len(q)]

\* A call that threw, and the test for it.
Thrown(message) == [thrown |-> message]
IsThrown(result) == "thrown" \in DOMAIN result

\* ----------------------------------------------------------------- browser

\* WalletService.generateWallet / fromMnemonic: the WalletInfo of an account.
WalletInfo(a) ==
    [address |-> a, privateKey |-> WalletPrivateKeyOf[a],
     mnemonic |-> MnemonicOf[a], publicKey |-> SigningKeyOf[a],
     email |-> EmailOf[a]]

\* The cookie saveWalletToCookies writes: the whole WalletInfo as JSON, for
\* every path of the site (path=/), SameSite=Strict.
WalletCookie(walletInfo) ==
    [name |-> "chainmail_wallet",
     value |-> encodeURIComponent(JsonStringify(walletInfo)),
     path |-> <<>>, sameSite |-> "Strict"]

\* The localStorage backup saveWalletToCookies writes beside the cookie.
WalletBackup(walletInfo) ==
    JsonStringify([privateKey |-> walletInfo.privateKey,
                   mnemonic |-> walletInfo.mnemonic,
                   publicKey |-> walletInfo.publicKey,
                   email |-> walletInfo.email])

\* savePGPKeysToCookies: the PGP_KEYS_<address> item.
PgpKeysItem(privateKey, publicKey) ==
    JsonStringify([privateKey |-> privateKey, publicKey |-> publicKey])

\* EncryptionService.generateKeyPair returns a pair nobody had before: the
\* next of the model's pairs not yet generated, while one is left.
NewKeyPairLeft == \E k \in PgpKeyIds : pgpGenerated[k] = ""
NewPgpKeyId == CHOOSE k \in PgpKeyIds : pgpGenerated[k] = ""
KeyPair(k) == [privateKey |-> PgpPrivateKeyOf[k], publicKey |-> k]

\* getWalletFromCookies: null without the cookie, else the wallet of the
\* cookie with the PGP keys of localStorage (empty when there are none).
getWalletFromCookies(a) ==
    IF cookieJar[a] = NoCookie
    THEN [loggedIn |-> FALSE]
    ELSE LET wallet == JsonParse(decodeURIComponent(cookieJar[a].value))
             pgpData == localStorage[a].pgpKeys
         IN  [loggedIn |-> TRUE,
              address |-> wallet.address,
              privateKey |-> wallet.privateKey,
              pgpPrivateKey |-> IF pgpData = NoItem THEN ""
                                ELSE JsonParse(pgpData).privateKey,
              pgpPublicKey |-> IF pgpData = NoItem THEN ""
                               ELSE JsonParse(pgpData).publicKey]

\* The Cookie header the browser of account a puts on a same-origin request
\* to `path`: the wallet cookie, when its path is an initial part of `path`.
CookieHeader(a, path) ==
    IF /\ cookieJar[a] # NoCookie
       /\ Len(cookieJar[a].path) <= Len(path)
       /\ SubSeq(path, 1, Len(cookieJar[a].path)) = cookieJar[a].path
    THEN cookieJar[a]
    ELSE NoCookie

\* fetch('/api/relay/<endpoint>', ...) from the browser of account a, as the
\* endpoint receives it.
Fetch(a, endpoint, body) ==
    [endpoint |-> endpoint, body |-> body,
     cookie |-> CookieHeader(a, <<"api", "relay", endpoint>>),
     env |-> NoEnv, response |-> NoResponse]

\* ------------------------------------------------------------- encryption

\* Mutant: the body is left out of what is encrypted.
encryptEmail_NoBody(subject, body, sender, recipient, recipientPublicKeyArmored) ==
    IF recipientPublicKeyArmored \notin PgpKeyIds
    THEN Thrown("Failed to encrypt email")
    ELSE [encryptionKey |-> recipientPublicKeyArmored,
          text |-> JsonStringify([subject |-> subject, body |-> "",
                                  sender |-> sender, recipient |-> recipient,
                                  timestamp |-> blockTimestamp])]

\* EncryptionService.encryptEmail: throws without a key; else the armored
\* message, readable with the private key of recipientPublicKeyArmored.
encryptEmail(subject, body, sender, recipient, recipientPublicKeyArmored) ==
    IF recipientPublicKeyArmored = ""
    THEN Thrown("Failed to encrypt email")
    ELSE IF recipientPublicKeyArmored \notin PgpKeyIds
    THEN Thrown("Failed to encrypt email")
    ELSE [encryptionKey |-> recipientPublicKeyArmored,
          text |-> JsonStringify([subject |-> subject, body |-> body,
                                  sender |-> sender, recipient |-> recipient,
                                  timestamp |-> blockTimestamp])]

\* The public key an armored private key belongs to.
PublicKeyOfPrivate(privateKeyArmored) ==
    CHOOSE k \in PgpKeyIds : PgpPrivateKeyOf[k] = privateKeyArmored

\* Mutant: any generated private key opens any message.
decryptEmail_AnyKey(encryptedContent, privateKeyArmored, walletPrivateKey) ==
    IF privateKeyArmored = "" \/ walletPrivateKey = ""
    THEN Thrown("Failed to decrypt email")
    ELSE LET emailData == JsonParse(encryptedContent.text)
         IN  [subject |-> emailData.subject, body |-> emailData.body,
              sender |-> emailData.sender, recipient |-> emailData.recipient,
              timestamp |-> emailData.timestamp]

\* EncryptionService.decryptEmail: unwraps a JSON {content} wrapper, refuses
\* empty keys, unlocks the private key with the passphrase it was generated
\* with (the wallet private key of its generator), decrypts a message that
\* was encrypted to this key, and parses the JSON inside.
decryptEmail(encryptedContent, privateKeyArmored, walletPrivateKey) ==
    LET actualContent ==
            IF "json" \in DOMAIN encryptedContent
            THEN IF "content" \in DOMAIN JsonParse(encryptedContent)
                 THEN JsonParse(encryptedContent).content
                 ELSE encryptedContent
            ELSE encryptedContent
    IN  IF privateKeyArmored = "" \/ walletPrivateKey = ""
        THEN Thrown("Failed to decrypt email")
        ELSE IF \A k \in PgpKeyIds : PgpPrivateKeyOf[k] # privateKeyArmored
        THEN Thrown("Failed to decrypt email")
        ELSE LET k == PublicKeyOfPrivate(privateKeyArmored)
             IN  IF \/ pgpGenerated[k] = ""
                    \/ WalletPrivateKeyOf[pgpGenerated[k]] # walletPrivateKey
                 THEN Thrown("Failed to decrypt email")
                 ELSE IF "encryptionKey" \notin DOMAIN actualContent
                 THEN Thrown("Failed to decrypt email")
                 ELSE IF actualContent.encryptionKey # k
                 THEN Thrown("Failed to decrypt email")
                 ELSE LET emailData == JsonParse(actualContent.text)
                      IN  [subject |-> emailData.subject,
                           body |-> emailData.body,
                           sender |-> emailData.sender,
                           recipient |-> emailData.recipient,
                           timestamp |-> emailData.timestamp]

\* ---------------------------------------------------------- content store

\* What pinJSONToIPFS pins for uploadToIPFS(content): {content, metadata},
\* the metadata being undefined.
PinataContent(content) == [pinned |-> TRUE, content |-> content]

\* The content id the pinning service answers an upload with: one it has
\* not handed out yet, while the model has one left.
NewContentIdLeft == \E cid \in ContentIds : ipfs[cid] = NotPinned
NewContentId == CHOOSE cid \in ContentIds : ipfs[cid] = NotPinned

\* IPFSService.fetchFromIPFS: the content field of what is pinned under the
\* hash; throws when the gateway has nothing under it.
fetchFromIPFS(ipfsHash) ==
    IF ipfsHash \notin ContentIds
    THEN Thrown("Failed to fetch from IPFS")
    ELSE IF ipfs[ipfsHash] = NotPinned
    THEN Thrown("Failed to fetch from IPFS")
    ELSE [content |-> ipfs[ipfsHash].content]

\* EmailService.fetchAndDecryptEmail: getEmail, fetchFromIPFS, decryptEmail;
\* whatever throws makes the call throw.
fetchAndDecryptEmail(emailId, recipientPrivateKeyArmored, walletPrivateKey) ==
    LET onChainEmail == getEmail(emailId)
    IN  IF ~onChainEmail.ok
        THEN Thrown("Failed to fetch email details")
        ELSE LET encrypted == fetchFromIPFS(onChainEmail.ipfsHash)
             IN  IF IsThrown(encrypted)
                 THEN encrypted
                 ELSE LET decryptedData ==
                              decryptEmail(encrypted.content,
                                           recipientPrivateKeyArmored,
                                           walletPrivateKey)
                      IN  IF IsThrown(decryptedData)
                          THEN decryptedData
                          ELSE [emailId |-> emailId,
                                from |-> onChainEmail.sender,
                                to |-> onChainEmail.recipient,
                                subject |-> decryptedData.subject,
                                body |-> decryptedData.body,
                                timestamp |-> onChainEmail.timestamp,
                                ipfsHash |-> onChainEmail.ipfsHash,
                                isImmutable |-> onChainEmail.isImmutable]

\* --------------------------------------------------------- relay endpoints

\* process.env and the chain as a route finds them: whether
\* RELAY_WALLET_PRIVATE_KEY, NEXT_PUBLIC_BLOCKDAG_RPC_URL and
\* NEXT_PUBLIC_CHAINMAIL_CONTRACT_ADDRESS are set, and the balance of the
\* relay wallet in units of BalanceUnit.
RelayEnvs ==
    [relayPrivateKey : BOOLEAN, rpcUrl : BOOLEAN, contractAddress : BOOLEAN,
     balance : {MinRelayBalance - 1, MinRelayBalance}]

\* Everything set and the relay wallet funded.
RelayEnvReady ==
    [relayPrivateKey |-> TRUE, rpcUrl |-> TRUE, contractAddress |-> TRUE,
     balance |-> MinRelayBalance]

\* The relay wallet of a configured deployment is funded, or has run dry.
DeployedRelayEnvs ==
    {RelayEnvReady, [RelayEnvReady EXCEPT !.balance = MinRelayBalance - 1]}

\* NextResponse.json({error}, {status}).
ErrorResponse(status, error) == [status |-> status, error |-> error]

\* Mutant: the balance is not looked at.
WriteRouteRejection_NoBalanceCheck(missingFields, env) ==
    IF missingFields
    THEN ErrorResponse(400, "Missing required fields")
    ELSE IF ~env.relayPrivateKey
    THEN ErrorResponse(500, "Relay wallet not configured")
    ELSE IF ~env.rpcUrl \/ ~env.contractAddress
    THEN ErrorResponse(500, "Blockchain configuration missing")
    ELSE NoResponse

\* Mutant: the RPC URL and the contract address are not looked at.
WriteRouteRejection_NoConfigCheck(missingFields, env) ==
    IF missingFields
    THEN ErrorResponse(400, "Missing required fields")
    ELSE IF ~env.relayPrivateKey
    THEN ErrorResponse(500, "Relay wallet not configured")
    ELSE IF env.balance < MinRelayBalance
    THEN ErrorResponse(500, "Relay wallet balance too low")
    ELSE NoResponse

\* The checks the two POST routes make before they touch the contract, in
\* order: request fields, relay credential, RPC URL and contract address,
\* relay balance.  NoResponse when all pass.
WriteRouteRejection(missingFields, env) ==
    IF missingFields
    THEN ErrorResponse(400, "Missing required fields")
    ELSE IF ~env.relayPrivateKey
    THEN ErrorResponse(500, "Relay wallet not configured")
    ELSE IF ~env.rpcUrl \/ ~env.contractAddress
    THEN ErrorResponse(500, "Blockchain configuration missing")
    ELSE IF env.balance < MinRelayBalance
    THEN ErrorResponse(500, "Relay wallet balance too low")
    ELSE NoResponse

\* GET /api/relay/get-public-key?address=: the request with the answer of
\* the route, contract.getPublicKey(address) unless something is missing.
GetPublicKeyRoute(request, env) ==
    [request EXCEPT
       !.env = env,
       !.response =
          IF request.body.address = ""
          THEN ErrorResponse(400, "Missing address parameter")
          ELSE IF ~env.rpcUrl \/ ~env.contractAddress
          THEN ErrorResponse(500, "Blockchain configuration missing")
          ELSE [status |-> 200,
                publicKey |-> getPublicKey(request.body.address)]]

\* BlockchainService.getPublicKey, after the route answered: the key of an
\* OK answer or, when that is empty or the answer is not OK, the key read
\* from the contract directly.
BlockchainServiceGetPublicKey(reply) ==
    IF reply.response.status = 200
    THEN IF reply.response.publicKey # ""
         THEN reply.response.publicKey
         ELSE getPublicKey(reply.body.address)
    ELSE getPublicKey(reply.body.address)

\* The event fragments of the ABI the send-email route builds its contract
\* object with: it lists the function logSendFor and no event.
SendEmailRouteAbiEvents == {}

\* The logs of a receipt: a successful submission emitted one EmailSent.
ReceiptLogs(receipt, emittedLog) ==
    IF receipt.ok THEN <<[topic |-> "EmailSent", args |-> Last(emittedLog)]>>
    ELSE <<>>

\* contract.interface.parseLog: the decoded event, or null for a topic the
\* interface has no fragment for.
ParseLog(abiEvents, log) ==
    IF log.topic \in abiEvents THEN [parsed |-> TRUE, args |-> log.args]
    ELSE [parsed |-> FALSE]

\* The emailId of the route's answer: 0, replaced by the first argument of
\* the receipt's EmailSent log when there is one and parseLog decodes it.
RouteEmailId(logs) ==
    IF \E i \in 1..Len(logs) : logs[i].topic = "EmailSent"
    THEN LET emailSentEvent ==
                 logs[CHOOSE i \in 1..Len(logs) : logs[i].topic = "EmailSent"]
             parsedLog == ParseLog(SendEmailRouteAbiEvents, emailSentEvent)
         IN  IF parsedLog.parsed THEN parsedLog.args.emailId ELSE 0
    ELSE 0

\* POST /api/relay/send-email: the checks, then logSendFor signed by the
\* relay wallet; a revert is caught and answered with 500, a confirmed
\* transaction with {success, emailId, transactionHash}.
SendEmailRoute(request, env) ==
    LET rejection ==
            WriteRouteRejection(\/ request.body.recipientAddress = ""
                                \/ request.body.ipfsHash = ""
                                \/ request.body.userAddress = "", env)
    IN  IF rejection # NoResponse
        THEN /\ relayInbox' = [request EXCEPT !.env = env,
                                              !.response = rejection]
             /\ UNCHANGED <<ledger, tx>>
        ELSE /\ logSendFor(RelayWallet, request.body.userAddress,
                           request.body.recipientAddress,
                           request.body.ipfsHash)
             /\ relayInbox' =
                   [request EXCEPT
                      !.env = env,
                      !.response =
                         IF tx'.ok
                         THEN [status |-> 200, success |-> TRUE,
                               emailId |->
                                   RouteEmailId(ReceiptLogs(tx', emailSentLog')),
                               transactionHash |-> tx']
                         ELSE ErrorResponse(500, tx'.reason)]

\* POST /api/relay/register-key: the same, with registerPublicKeyFor.
RegisterKeyRoute(request, env) ==
    LET rejection ==
            WriteRouteRejection(\/ request.body.publicKey = ""
                                \/ request.body.userAddress = "", env)
    IN  IF rejection # NoResponse
        THEN /\ relayInbox' = [request EXCEPT !.env = env,
                                              !.response = rejection]
             /\ UNCHANGED <<ledger, tx>>
        ELSE /\ registerPublicKeyFor(RelayWallet, request.body.userAddress,
                                     request.body.publicKey)
             /\ relayInbox' =
                   [request EXCEPT
                      !.env = env,
                      !.response =
                         IF tx'.ok
                         THEN [status |-> 200, success |-> TRUE,
                               transactionHash |-> tx']
                         ELSE ErrorResponse(500, tx'.reason)]

\* Mutant: the user and the recipient change places.
LogEmailSendRelayBody_SwappedParties(recipientAddress, ipfsHash, userAddress) ==
    [recipientAddress |-> userAddress, ipfsHash |-> ipfsHash,
     userAddress |-> recipientAddress]

\* The body logEmailSendRelay posts.
LogEmailSendRelayBody(recipientAddress, ipfsHash, userAddress) ==
    [recipientAddress |-> recipientAddress, ipfsHash |-> ipfsHash,
     userAddress |-> userAddress]

\* The body registerPublicKeyRelay posts.
RegisterPublicKeyRelayBody(publicKey, userAddress) ==
    [publicKey |-> publicKey, userAddress |-> userAddress]

\* ------------------------------------------------------------ client calls

\* What the application explores.
MailScope ==
    [maxEmails |-> MaxMailEmails, maxKeyRegs |-> MaxMailKeyRegs,
     ipfsHashes |-> {"cid1"}, publicKeyStrings |-> {"", "keyA", "keyB"},
     blockTimestamps |-> BlockTimestamps]

\* No client call is in progress.  The model runs one at a time; direct
\* transactions of other users go on in between.
Idle == call.pc \in {"done", "failed"}

\* handleLogin(walletInfo), up to its first await: the login page is shown
\* only without a wallet cookie; it asks for the account's registered key.
LoginStart(a) ==
    /\ Idle
    /\ cookieJar[a] = NoCookie
    /\ \/ localStorage[a].pgpKeys # NoItem
       \/ NewKeyPairLeft
    /\ relayInbox' = GetPublicKeyRoute(
                         Fetch(a, "get-public-key", [address |-> a]),
                         RelayEnvReady)
    /\ call' = [fn |-> "handleLogin", pc |-> "getPublicKey", address |-> a,
                publicKey |-> "", alert |-> ""]
    /\ fetched' = NoCall
    /\ poll' = poll
    /\ polling' = polling
    /\ UNCHANGED <<ledger, blockTimestamp, tx, cookieJar, localStorage,
                   pgpGenerated, ipfs>>

\* What handleLogin alerts when the ledger has a key and localStorage none.
KeysLostAlert ==
    "WARNING: Your encryption keys were lost. Old emails cannot be decrypted. New keys will be generated."

\* saveWalletToCookies and savePGPKeysToCookies, then on to the
\* registration when shouldRegisterKey.
LoginSave(a, keys, shouldRegisterKey, alert) ==
    /\ cookieJar' = [cookieJar EXCEPT ![a] = WalletCookie(WalletInfo(a))]
    /\ localStorage' =
          [localStorage EXCEPT ![a] =
              [wallet |-> WalletBackup(WalletInfo(a)),
               pgpKeys |-> PgpKeysItem(keys.privateKey, keys.publicKey)]]
    /\ call' = [call EXCEPT
                  !.pc = IF shouldRegisterKey THEN "registerPublicKeyRelay"
                         ELSE "done",
                  !.publicKey = keys.publicKey,
                  !.alert = alert]

\* handleLogin after the key came back: keep the PGP keys of localStorage
\* (registering them when the ledger has none or another key), or generate
\* a new pair locked with the wallet private key; save wallet and keys.
LoginGotPublicKey ==
    /\ call.fn = "handleLogin"
    /\ call.pc = "getPublicKey"
    /\ LET a == call.address
           blockchainPublicKey == BlockchainServiceGetPublicKey(relayInbox)
           existingKeys == localStorage[a].pgpKeys
       IN  IF existingKeys # NoItem
           THEN /\ LoginSave(a, JsonParse(existingKeys),
                             blockchainPublicKey
                                 # JsonParse(existingKeys).publicKey, "")
                /\ UNCHANGED pgpGenerated
           ELSE /\ NewKeyPairLeft
                /\ pgpGenerated' = [pgpGenerated EXCEPT ![NewPgpKeyId] = a]
                /\ LoginSave(a, KeyPair(NewPgpKeyId), TRUE,
                             IF blockchainPublicKey # ""
                             THEN KeysLostAlert ELSE "")
    /\ relayInbox' = NoRequest
    /\ UNCHANGED <<ledger, blockTimestamp, tx, ipfs, fetched, poll, polling>>

\* handleLogin: registerPublicKeyRelay, as far as the relay's transaction.
LoginRegisterPostIn(S) ==
    /\ call.fn = "handleLogin"
    /\ call.pc = "registerPublicKeyRelay"
    /\ tx = NoTx
    /\ \E env \in DeployedRelayEnvs :
          RegisterKeyRoute(
              Fetch(call.address, "register-key",
                    RegisterPublicKeyRelayBody(call.publicKey, call.address)),
              env)
    /\ WithinScope(S)
    /\ call' = [call EXCEPT !.pc = "awaitRelay"]
    /\ UNCHANGED <<blockTimestamp, cookieJar, localStorage, pgpGenerated,
                   ipfs, fetched, poll, polling>>

LoginRegisterPost == LoginRegisterPostIn(MailScope)

\* handleLogin: the answer of the relay; a failure is logged and ignored.
LoginRegisterResponse ==
    /\ call.fn = "handleLogin"
    /\ call.pc = "awaitRelay"
    /\ call' = [call EXCEPT !.pc = "done"]
    /\ relayInbox' = NoRequest
    /\ tx' = NoTx
    /\ UNCHANGED <<ledger, blockTimestamp, cookieJar, localStorage,
                   pgpGenerated, ipfs, fetched, poll, polling>>

\* Mutant: the PGP keys stay in localStorage.
Logout_KeepsPgpKeys(a) ==
    /\ Idle
    /\ getWalletFromCookies(a).loggedIn
    /\ cookieJar' = [cookieJar EXCEPT ![a] = NoCookie]
    /\ localStorage' = [localStorage EXCEPT ![a].wallet = NoItem]
    /\ UNCHANGED <<ledger, blockTimestamp, tx, pgpGenerated, ipfs, relayInbox,
                   call, fetched, poll, polling>>

\* logout(): the cookie expires, the wallet backup and the PGP keys of the
\* cookie's address leave localStorage.
Logout(a) ==
    /\ Idle
    /\ getWalletFromCookies(a).loggedIn
    /\ cookieJar' = [cookieJar EXCEPT ![a] = NoCookie]
    /\ localStorage' = [localStorage EXCEPT ![a] = NoItems]
    /\ UNCHANGED <<ledger, blockTimestamp, tx, pgpGenerated, ipfs, relayInbox,
                   call, fetched, poll, polling>>

\* EmailService.sendEmail(emailData, senderPrivateKey, ..., senderAddress)
\* called by handleSendEmail with the wallet of the cookie, up to its first
\* await: BlockchainService.getPublicKey(emailData.to).
SendEmailStart(senderAddress, to, subject, body) ==
    /\ Idle
    /\ getWalletFromCookies(senderAddress).loggedIn
    /\ getWalletFromCookies(senderAddress).privateKey # ""
    /\ relayInbox' = GetPublicKeyRoute(
                         Fetch(senderAddress, "get-public-key",
                               [address |-> to]),
                         RelayEnvReady)
    /\ call' = [fn |-> "sendEmail", pc |-> "getPublicKey",
                senderAddress |-> senderAddress, to |-> to,
                subject |-> subject, body |-> body,
                recipientPublicKeyArmored |-> "",
                encryptedContent |-> NoContent,
                ipfsHash |-> "", emailId |-> 0, transactionHash |-> NoTx,
                error |-> ""]
    /\ fetched' = NoCall
    /\ poll' = poll
    /\ polling' = polling
    /\ UNCHANGED <<ledger, blockTimestamp, tx, cookieJar, localStorage,
                   pgpGenerated, ipfs>>

\* What sendEmail throws for a recipient without a key.
NoRecipientKey ==
    "Recipient has not registered their public key. They need to login to ChainMail first."

\* Mutant: the recipient's key is not looked at.
SendEmailGotPublicKey_NoKeyCheck ==
    /\ call.fn = "sendEmail"
    /\ call.pc = "getPublicKey"
    /\ call' = [call EXCEPT
                  !.pc = "encryptEmail",
                  !.recipientPublicKeyArmored =
                      BlockchainServiceGetPublicKey(relayInbox)]
    /\ relayInbox' = NoRequest
    /\ UNCHANGED <<ledger, blockTimestamp, tx, cookieJar, localStorage,
                   pgpGenerated, ipfs, fetched, poll, polling>>

\* sendEmail, step 1 done: no key, no email.
SendEmailGotPublicKey ==
    /\ call.fn = "sendEmail"
    /\ call.pc = "getPublicKey"
    /\ LET recipientPublicKeyArmored ==
               BlockchainServiceGetPublicKey(relayInbox)
       IN  call' =
              IF recipientPublicKeyArmored = ""
              THEN [call EXCEPT
                      !.pc = "failed",
                      !.error = NoRecipientKey]
              ELSE [call EXCEPT
                      !.pc = "encryptEmail",
                      !.recipientPublicKeyArmored = recipientPublicKeyArmored]
    /\ relayInbox' = NoRequest
    /\ UNCHANGED <<ledger, blockTimestamp, tx, cookieJar, localStorage,
                   pgpGenerated, ipfs, fetched, poll, polling>>

\* sendEmail, step 2: EncryptionService.encryptEmail.
SendEmailEncrypt ==
    /\ call.fn = "sendEmail"
    /\ call.pc = "encryptEmail"
    /\ LET encryptedContent ==
               encryptEmail(call.subject, call.body, call.senderAddress,
                            call.to, call.recipientPublicKeyArmored)
       IN  call' =
              IF IsThrown(encryptedContent)
              THEN [call EXCEPT !.pc = "failed",
                                !.error = encryptedContent.thrown]
              ELSE [call EXCEPT !.pc = "uploadToIPFS",
                                !.encryptedContent = encryptedContent]
    /\ UNCHANGED <<ledger, blockTimestamp, tx, cookieJar, localStorage,
                   pgpGenerated, ipfs, relayInbox, fetched, poll, polling>>

\* sendEmail, step 3: IPFSService.uploadToIPFS pins the ciphertext and
\* returns the content id it got, or throws.
SendEmailUpload ==
    /\ call.fn = "sendEmail"
    /\ call.pc = "uploadToIPFS"
    /\ \/ /\ NewContentIdLeft
          /\ ipfs' = [ipfs EXCEPT
                        ![NewContentId] = PinataContent(call.encryptedContent)]
          /\ call' = [call EXCEPT !.pc = "logEmailSendRelay",
                                  !.ipfsHash = NewContentId]
       \/ /\ call' = [call EXCEPT !.pc = "failed",
                                  !.error = "Failed to upload to IPFS"]
          /\ UNCHANGED ipfs
    /\ UNCHANGED <<ledger, blockTimestamp, tx, cookieJar, localStorage,
                   pgpGenerated, relayInbox, fetched, poll, polling>>

\* sendEmail, step 4: BlockchainService.logEmailSendRelay, as far as the
\* relay's transaction.
SendEmailRelayPost ==
    /\ call.fn = "sendEmail"
    /\ call.pc = "logEmailSendRelay"
    /\ tx = NoTx
    /\ \E env \in DeployedRelayEnvs :
          SendEmailRoute(
              Fetch(call.senderAddress, "send-email",
                    LogEmailSendRelayBody(call.to, call.ipfsHash,
                                          call.senderAddress)),
              env)
    /\ WithinScope(MailScope)
    /\ call' = [call EXCEPT !.pc = "awaitRelay"]
    /\ UNCHANGED <<blockTimestamp, cookieJar, localStorage, pgpGenerated,
                   ipfs, fetched, poll, polling>>

\* Mutant: a refused submission is posted again.
SendEmailRelayResponse_Retries ==
    /\ call.fn = "sendEmail"
    /\ call.pc = "awaitRelay"
    /\ call' =
          IF relayInbox.response.status = 200
          THEN [call EXCEPT
                  !.pc = "done",
                  !.emailId = relayInbox.response.emailId,
                  !.transactionHash = relayInbox.response.transactionHash]
          ELSE [call EXCEPT !.pc = "logEmailSendRelay"]
    /\ relayInbox' = NoRequest
    /\ tx' = NoTx
    /\ UNCHANGED <<ledger, blockTimestamp, cookieJar, localStorage,
                   pgpGenerated, ipfs, fetched, poll, polling>>

\* sendEmail: the answer of the relay; anything but a confirmed transaction
\* makes the call throw.
SendEmailRelayResponse ==
    /\ call.fn = "sendEmail"
    /\ call.pc = "awaitRelay"
    /\ call' =
          IF relayInbox.response.status = 200
          THEN [call EXCEPT
                  !.pc = "done",
                  !.emailId = relayInbox.response.emailId,
                  !.transactionHash = relayInbox.response.transactionHash]
          ELSE [call EXCEPT
                  !.pc = "failed",
                  !.error = "Failed to send via relay: "
                                \o relayInbox.response.error]
    /\ relayInbox' = NoRequest
    /\ tx' = NoTx
    /\ UNCHANGED <<ledger, blockTimestamp, cookieJar, localStorage,
                   pgpGenerated, ipfs, fetched, poll, polling>>

\* loadEmails / loadSentEmails: fetchAndDecryptEmail on an id of the
\* account's inbox or sent list, with the keys getWalletFromCookies gives.
\* Its three reads are of data that never changes, so it is one step.  The
\* page keeps the result until the next login or send.
FetchAndDecryptEmailCall(a, emailId) ==
    /\ Idle
    /\ getWalletFromCookies(a).loggedIn
    /\ getWalletFromCookies(a).pgpPrivateKey # ""
    /\ getWalletFromCookies(a).privateKey # ""
    /\ \/ \E i \in 1..Len(getRecipientEmails(a)) :
             getRecipientEmails(a)[i] = emailId
       \/ \E i \in 1..Len(getSenderEmails(a)) :
             getSenderEmails(a)[i] = emailId
    /\ fetched' =
          [fn |-> "fetchAndDecryptEmail", pc |-> "done", by |-> a,
           emailId |-> emailId,
           recipientPrivateKeyArmored |->
               getWalletFromCookies(a).pgpPrivateKey,
           result |-> fetchAndDecryptEmail(
                          emailId,
                          getWalletFromCookies(a).pgpPrivateKey,
                          getWalletFromCookies(a).privateKey)]
    /\ UNCHANGED <<ledger, blockTimestamp, tx, cookieJar, localStorage,
                   pgpGenerated, ipfs, relayInbox, call, poll, polling>>

\* Somebody who holds a funded wallet logs a record with the contract
\* directly, not through this application's sendEmail: logSend with
\* arguments the contract accepts.
DirectLogSend(S) ==
    /\ tx = NoTx
    /\ \E c \in Accounts, r \in Accounts, p \in S.ipfsHashes : logSend(c, r, p)
    /\ WithinScope(S)
    /\ UNCHANGED <<blockTimestamp, client>>

\* A receipt reaches a user who sent the transaction directly (the relay
\* keeps the receipt of its own transaction until it answers).
DirectReceiptDelivered ==
    /\ relayInbox = NoRequest
    /\ ReceiptDelivered

MailNext ==
    \/ DirectReceiptDelivered
    \/ DirectLogSend(MailScope)
    \/ \E a \in Accounts : LoginStart(a)
    \/ LoginGotPublicKey
    \/ LoginRegisterPost
    \/ LoginRegisterResponse
    \/ \E a \in Accounts : Logout(a)
    \/ \E s \in Accounts, t \in Addresses, subject \in Subjects,
          body \in Bodies : SendEmailStart(s, t, subject, body)
    \/ SendEmailGotPublicKey
    \/ SendEmailEncrypt
    \/ SendEmailUpload
    \/ SendEmailRelayPost
    \/ SendEmailRelayResponse
    \/ \E a \in Accounts, emailId \in 1..emailCount :
          FetchAndDecryptEmailCall(a, emailId)

\* The application on a ledger whose relay is the relay wallet, or is not.
MailInit == Deployed({"addrA"}, {RelayWallet, Zero})

MailSpec == MailInit /\ [][MailNext]_vars

\* ---------------------------------------------------- the relay by itself

\* What the relay routes are explored with: the deployed contract, anybody
\* posting any request, any process.env.
RelayScope ==
    [maxEmails |-> MaxRelayEmails, maxKeyRegs |-> MaxRelayKeyRegs,
     ipfsHashes |-> {"cid1"}, publicKeyStrings |-> {"", "keyA"},
     blockTimestamps |-> BlockTimestamps]

\* The JSON bodies and the query a route may be sent; "" is a field left out.
SendEmailBodies ==
    [recipientAddress : {"", "addrA", Zero}, ipfsHash : {"", "cid1"},
     userAddress : {"", "addrB"}]
RegisterKeyBodies == [publicKey : {"", "keyA"}, userAddress : {"", "addrA", Zero}]
GetPublicKeyQueries == [address : {"", "addrA"}]

\* A route takes up one request at a time and answers it.
PostSendEmail ==
    /\ relayInbox = NoRequest
    /\ tx = NoTx
    /\ \E a \in Accounts, body \in SendEmailBodies, env \in RelayEnvs :
          SendEmailRoute(Fetch(a, "send-email", body), env)
    /\ WithinScope(RelayScope)
    /\ UNCHANGED <<blockTimestamp, cookieJar, localStorage, pgpGenerated,
                   ipfs, call, fetched, poll, polling>>

PostRegisterKey ==
    /\ relayInbox = NoRequest
    /\ tx = NoTx
    /\ \E a \in Accounts, body \in RegisterKeyBodies, env \in RelayEnvs :
          RegisterKeyRoute(Fetch(a, "register-key", body), env)
    /\ WithinScope(RelayScope)
    /\ UNCHANGED <<blockTimestamp, cookieJar, localStorage, pgpGenerated,
                   ipfs, call, fetched, poll, polling>>

GetPublicKeyRequest ==
    /\ relayInbox = NoRequest
    /\ \E a \in Accounts, query \in GetPublicKeyQueries, env \in RelayEnvs :
          relayInbox' = GetPublicKeyRoute(Fetch(a, "get-public-key", query), env)
    /\ UNCHANGED <<ledger, blockTimestamp, tx, cookieJar, localStorage,
                   pgpGenerated, ipfs, call, fetched, poll, polling>>

\* The answer has left; the route is free again.
RelayAnswered ==
    /\ relayInbox # NoRequest
    /\ relayInbox' = NoRequest
    /\ tx' = NoTx
    /\ UNCHANGED <<ledger, blockTimestamp, cookieJar, localStorage,
                   pgpGenerated, ipfs, call, fetched, poll, polling>>

RelayNext ==
    \/ PostSendEmail
    \/ PostRegisterKey
    \/ GetPublicKeyRequest
    \/ RelayAnswered
    \/ DirectLogSend(RelayScope)
    \/ DirectReceiptDelivered

RelaySpec == MailInit /\ [][RelayNext]_vars

\* ------------------------------------------------------ logging in again

\* How many key registrations the login page is explored with: enough for
\* a key to be replaced.
MaxLoginKeyRegs == 2

LoginScope ==
    [maxEmails |-> 0, maxKeyRegs |-> MaxLoginKeyRegs,
     ipfsHashes |-> {}, publicKeyStrings |-> PgpKeyIds,
     blockTimestamps |-> BlockTimestamps]

\* Users log in and out; the relay registers their keys.
LoginNext ==
    \/ DirectReceiptDelivered
    \/ \E a \in Accounts : LoginStart(a)
    \/ LoginGotPublicKey
    \/ LoginRegisterPostIn(LoginScope)
    \/ LoginRegisterResponse
    \/ \E a \in Accounts : Logout(a)

LoginSpec == MailInit /\ [][LoginNext]_vars

\* ------------------------------------------------- reading the mailbox

\* How many records, and how many failing ledger reads, the mailbox reads
\* are explored with.
MaxPollEmails == 2
MaxReadFailures == 1
\* How many runs of poll() may be under way at once: a run that is slower
\* than the interval is still awaiting a read when the timer starts the next.
MaxPollRuns == 2

PollScope ==
    [maxEmails |-> MaxPollEmails, maxKeyRegs |-> 0,
     ipfsHashes |-> {"cid1"}, publicKeyStrings |-> {""},
     blockTimestamps |-> BlockTimestamps]

\* A function of EmailService returned value / threw (Thrown, above).
Returned(value) == [returned |-> value]

\* The EmailMetadata the services build from BlockchainService.getEmail.
EmailMetadataOf(emailId) ==
    LET onChainEmail == getEmail(emailId)
    IN  [emailId |-> emailId,
         from |-> onChainEmail.sender,
         to |-> onChainEmail.recipient,
         timestamp |-> onChainEmail.timestamp,
         transactionHash |-> "",
         ipfsHash |-> onChainEmail.ipfsHash,
         isImmutable |-> onChainEmail.isImmutable]

\* emails.sort((a, b) => b.timestamp - a.timestamp): newest first, and the
\* sort is stable.
RECURSIVE SortNewestFirst(_)
SortNewestFirst(es) ==
    IF es = <<>>
    THEN <<>>
    ELSE LET rest == SortNewestFirst(Tail(es))
             newer == Cardinality({i \in 1..Len(rest) :
                                     rest[i].timestamp > Head(es).timestamp})
         IN  SubSeq(rest, 1, newer) \o <<Head(es)>>
                 \o SubSeq(rest, newer + 1, Len(rest))

\* The body shared by EmailService.getRecipientEmails and getSenderEmails:
\* the metadata of every id, newest first; when a ledger read fails
\* (readOk is FALSE) the catch block logs and returns [].
EmailMetadataList(emailIds, readOk) ==
    IF readOk
    THEN Returned(SortNewestFirst([i \in 1..Len(emailIds) |->
                                      EmailMetadataOf(emailIds[i])]))
    ELSE Returned(<<>>)

\* A page calls EmailService.getRecipientEmails.
GetRecipientEmailsCall(a, readOk) ==
    /\ fetched' =
          [fn |-> "getRecipientEmails", pc |-> "done", by |-> a,
           readOk |-> readOk,
           result |-> EmailMetadataList(getRecipientEmails(a), readOk)]
    /\ UNCHANGED <<ledger, blockTimestamp, tx, cookieJar, localStorage,
                   pgpGenerated, ipfs, relayInbox, call, poll, polling>>

\* A page calls EmailService.getSenderEmails.
GetSenderEmailsCall(a, readOk) ==
    /\ fetched' =
          [fn |-> "getSenderEmails", pc |-> "done", by |-> a,
           readOk |-> readOk,
           result |-> EmailMetadataList(getSenderEmails(a), readOk)]
    /\ UNCHANGED <<ledger, blockTimestamp, tx, cookieJar, localStorage,
                   pgpGenerated, ipfs, relayInbox, call, poll, polling>>

PollUnchanged ==
    UNCHANGED <<ledger, blockTimestamp, tx, cookieJar, localStorage,
                pgpGenerated, ipfs, relayInbox, call, fetched, polling>>

\* A run of poll() that awaits BlockchainService.getRecipientEmails.
NewRun == [NoRun EXCEPT !.pc = "getRecipientEmails"]

\* The first place of poll.runs that holds no run.
FreeRun == CHOOSE i \in 1..MaxPollRuns : poll.runs[i] = NoRun

\* pollForNewEmails(recipientAddress, callback): lastEmailCount = 0, the
\* initial poll() is started and the interval is set.
PollForNewEmails(a) ==
    /\ poll.intervalId = "none"
    /\ poll' = [NoPoll EXCEPT
                  !.intervalId = "set",
                  !.recipientAddress = a,
                  !.runs = [i \in 1..MaxPollRuns |->
                               IF i = 1 THEN NewRun ELSE NoRun]]
    /\ PollUnchanged

\* poll(): BlockchainService.getRecipientEmails answers run i.  With more
\* ids than lastEmailCount the new ones are sliced off and lastEmailCount
\* is moved to the length read; a failed read is logged by the catch block.
PollGetRecipientEmails(i, readOk) ==
    /\ i \in DOMAIN poll.runs
    /\ poll.runs[i].pc = "getRecipientEmails"
    /\ ~readOk => poll.readFailures < MaxReadFailures
    /\ poll' =
          IF ~readOk
          THEN [poll EXCEPT !.runs[i] = NoRun, !.readFailures = @ + 1]
          ELSE LET emailIds == getRecipientEmails(poll.recipientAddress)
               IN  IF Len(emailIds) > poll.lastEmailCount
                   THEN [poll EXCEPT
                           !.runs[i] =
                               [pc |-> "getEmail",
                                newEmailIds |->
                                    SubSeq(emailIds, poll.lastEmailCount + 1,
                                           Len(emailIds)),
                                newEmails |-> <<>>],
                           !.lastEmailCount = Len(emailIds)]
                   ELSE [poll EXCEPT !.runs[i] = NoRun]
    /\ PollUnchanged

\* poll(): BlockchainService.getEmail answers run i for its next new id.
\* After the last id the loop ends and callback(newEmails) is called in the
\* same turn; a failed read leaves the loop for the catch block.
PollGetEmail(i, readOk) ==
    /\ i \in DOMAIN poll.runs
    /\ poll.runs[i].pc = "getEmail"
    /\ ~readOk => poll.readFailures < MaxReadFailures
    /\ poll' =
          LET newEmails ==
                  Append(poll.runs[i].newEmails,
                         EmailMetadataOf(Head(poll.runs[i].newEmailIds)))
          IN  IF ~readOk
              THEN [poll EXCEPT !.runs[i] = NoRun, !.readFailures = @ + 1]
              ELSE IF Tail(poll.runs[i].newEmailIds) # <<>>
              THEN [poll EXCEPT
                      !.runs[i].newEmailIds = Tail(@),
                      !.runs[i].newEmails = newEmails]
              ELSE [poll EXCEPT
                      !.runs[i] = NoRun,
                      !.callbacks = Append(@, newEmails)]
    /\ PollUnchanged

\* setInterval(poll, intervalMs) fires: another run of poll() starts,
\* whether or not an earlier one has ended.
PollInterval ==
    /\ poll.intervalId = "set"
    /\ \E i \in 1..MaxPollRuns : poll.runs[i] = NoRun
    /\ poll' = [poll EXCEPT !.runs[FreeRun] = NewRun]
    /\ PollUnchanged

\* The cleanup function: clearInterval(intervalId).  A poll() already
\* running goes on to its end.
StopPolling ==
    /\ poll.intervalId = "set"
    /\ poll' = [poll EXCEPT !.intervalId = "cleared"]
    /\ PollUnchanged

\* The pages list a mailbox while records arrive.
ReadNext ==
    \/ DirectReceiptDelivered
    \/ DirectLogSend(PollScope)
    \/ MineBlock(PollScope)
    \/ \E a \in Accounts, readOk \in BOOLEAN : GetRecipientEmailsCall(a, readOk)
    \/ \E a \in Accounts, readOk \in BOOLEAN : GetSenderEmailsCall(a, readOk)

ReadSpec == MailInit /\ [][ReadNext]_vars

\* A mailbox is watched while records arrive.
PollNext ==
    \/ DirectReceiptDelivered
    \/ DirectLogSend(PollScope)
    \/ MineBlock(PollScope)
    \/ \E a \in Accounts : PollForNewEmails(a)
    \/ \E i \in 1..MaxPollRuns, readOk \in BOOLEAN :
          PollGetRecipientEmails(i, readOk)
    \/ \E i \in 1..MaxPollRuns, readOk \in BOOLEAN : PollGetEmail(i, readOk)
    \/ PollInterval
    \/ StopPolling

\* The event loop runs every timer that is due and every continuation
\* whose read has answered, and a ledger read that is repeated answers in
\* the end: the steps of poll() are taken when they stay possible.
PollFairness ==
    /\ \A i \in 1..MaxPollRuns :
          /\ WF_vars(PollGetRecipientEmails(i, TRUE))
          /\ WF_vars(PollGetEmail(i, TRUE))
    /\ WF_vars(PollInterval)

PollSpec == MailInit /\ [][PollNext]_vars /\ PollFairness

\* ------------------------------------------------ polling for events

\* How many records, calls of startPollingForEmails and timer callbacks
\* under way at once the event polling is explored with.
MaxPollingEmails == 1
MaxPollingCalls == 2
MaxPollingTicks == 2

PollingScope ==
    [maxEmails |-> MaxPollingEmails, maxKeyRegs |-> 0,
     ipfsHashes |-> {"cid1"}, publicKeyStrings |-> {""},
     blockTimestamps |-> BlockTimestamps]

\* provider.getBlockNumber(): the latest block that is complete.  Blocks
\* are told apart by their timestamps; the block of blockTimestamp is the
\* one still taking transactions.
getBlockNumber == blockTimestamp - 1

\* contract.queryFilter(contract.filters.EmailSent(null, null, recipient),
\* fromBlock, toBlock)
queryFilter(recipient, fromBlock, toBlock) ==
    SelectSeq(emailSentLog,
              LAMBDA e : /\ e.recipient = recipient
                         /\ fromBlock <= e.timestamp
                         /\ e.timestamp <= toBlock)

PollingUnchanged ==
    UNCHANGED <<ledger, blockTimestamp, tx, cookieJar, localStorage,
                pgpGenerated, ipfs, relayInbox, call, fetched, poll>>

\* clearInterval(this.pollingInterval), when there is one.
ClearedIntervals ==
    IF polling.pollingInterval # 0
    THEN polling.intervals \ {polling.pollingInterval}
    ELSE polling.intervals

\* startPollingForEmails(recipientAddress, callback): the existing interval
\* is cleared, initializePolling() is started and not awaited, and the new
\* interval is kept in this.pollingInterval.  The call is remembered with
\* the block number of that moment and what its callback was passed.
StartPollingForEmails(a) ==
    /\ Len(polling.calls) < MaxPollingCalls
    /\ LET k == Len(polling.calls) + 1
       IN  polling' =
              [polling EXCEPT
                 !.calls = Append(@, [recipientAddress |-> a,
                                      initializePolling |-> "pending",
                                      startBlock |-> getBlockNumber,
                                      cleanedUp |-> FALSE,
                                      callbacks |-> <<>>]),
                 !.intervals = ClearedIntervals \cup {k},
                 !.pollingInterval = k]
    /\ PollingUnchanged

\* initializePolling() of call k: provider.getBlockNumber() answers, or
\* fails and the catch block sets lastProcessedBlock = 0.
InitializePolling(k, readOk) ==
    /\ k \in DOMAIN polling.calls
    /\ polling.calls[k].initializePolling = "pending"
    /\ polling' =
          [polling EXCEPT
             !.calls[k].initializePolling = "done",
             !.lastProcessedBlock = IF readOk THEN getBlockNumber ELSE 0]
    /\ PollingUnchanged

\* The timer callbacks under way without the i-th, which has ended.
EndedTick(i) ==
    SubSeq(polling.ticks, 1, i - 1)
        \o SubSeq(polling.ticks, i + 1, Len(polling.ticks))

\* The interval of call k fires: its callback starts and awaits
\* provider.getBlockNumber().
PollingInterval(k) ==
    /\ k \in polling.intervals
    /\ Len(polling.ticks) < MaxPollingTicks
    /\ polling' = [polling EXCEPT
                     !.ticks = Append(@, [pc |-> "getBlockNumber", of |-> k])]
    /\ PollingUnchanged

\* Timer callback i: provider.getBlockNumber() answers.  With a block
\* beyond lastProcessedBlock, queryFilter is called for the blocks from
\* lastProcessedBlock + 1 to currentBlock; a failure ends in the catch block.
PollingGotBlockNumber(i, readOk) ==
    /\ i \in DOMAIN polling.ticks
    /\ polling.ticks[i].pc = "getBlockNumber"
    /\ polling' =
          IF readOk /\ getBlockNumber > polling.lastProcessedBlock
          THEN [polling EXCEPT
                  !.ticks[i] =
                      [pc |-> "queryFilter", of |-> polling.ticks[i].of,
                       fromBlock |-> polling.lastProcessedBlock + 1,
                       currentBlock |-> getBlockNumber]]
          ELSE [polling EXCEPT !.ticks = EndedTick(i)]
    /\ PollingUnchanged

\* Timer callback i: queryFilter answers; the callback of the call is
\* passed every event, then lastProcessedBlock = currentBlock.  A failure
\* ends in the catch block.
PollingGotEvents(i, readOk) ==
    /\ i \in DOMAIN polling.ticks
    /\ polling.ticks[i].pc = "queryFilter"
    /\ LET tick == polling.ticks[i]
           k == tick.of
           events == queryFilter(polling.calls[k].recipientAddress,
                                 tick.fromBlock, tick.currentBlock)
       IN  polling' =
              IF readOk
              THEN [polling EXCEPT
                      !.ticks = EndedTick(i),
                      !.calls[k].callbacks = @ \o events,
                      !.lastProcessedBlock = tick.currentBlock]
              ELSE [polling EXCEPT !.ticks = EndedTick(i)]
    /\ PollingUnchanged

\* The cleanup function returned to call k:
\* clearInterval(this.pollingInterval); this.pollingInterval = null.
PollingCleanup(k) ==
    /\ k \in DOMAIN polling.calls
    /\ ~polling.calls[k].cleanedUp
    /\ polling' = [polling EXCEPT
                     !.calls[k].cleanedUp = TRUE,
                     !.intervals = ClearedIntervals,
                     !.pollingInterval = 0]
    /\ PollingUnchanged

\* Mailboxes are watched for EmailSent events while records arrive.
PollingNext ==
    \/ DirectReceiptDelivered
    \/ DirectLogSend(PollingScope)
    \/ MineBlock(PollingScope)
    \/ \E a \in Accounts : StartPollingForEmails(a)
    \/ \E k \in 1..MaxPollingCalls, readOk \in BOOLEAN :
          InitializePolling(k, readOk)
    \/ \E k \in 1..MaxPollingCalls : PollingInterval(k)
    \/ \E i \in 1..MaxPollingTicks, readOk \in BOOLEAN :
          PollingGotBlockNumber(i, readOk)
    \/ \E i \in 1..MaxPollingTicks, readOk \in BOOLEAN :
          PollingGotEvents(i, readOk)
    \/ \E k \in 1..MaxPollingCalls : PollingCleanup(k)

\* A read that is under way answers in the end, and the event loop then
\* runs the continuation that awaits it.
PollingFairness ==
    /\ \A k \in 1..MaxPollingCalls : WF_vars(InitializePolling(k, TRUE))
    /\ \A i \in 1..MaxPollingTicks :
          /\ WF_vars(PollingGotBlockNumber(i, TRUE))
          /\ WF_vars(PollingGotEvents(i, TRUE))

PollingSpec == MailInit /\ [][PollingNext]_vars /\ PollingFairness

\* ------------------------------------------------------------ vocabulary

\* The receipt is that of a submission (logSend or logSendFor).
IsSubmission(t) == t.op \in {"logSend", "logSendFor"}

\* The account a submission attributes the record to.
SubmittedSender(t) == IF t.op = "logSend" THEN t.caller ELSE t.args.sender

\* The receipt is that of a relay-only entry point.
IsRelayCall(t) == t.op \in {"logSendFor", "registerPublicKeyFor"}

\* The receipt is that of an owner-only operation, and its address argument.
IsAdminCall(t) == t.op \in {"setRelayAddress", "transferOwnership"}

AdminArgument(t) ==
    IF t.op = "setRelayAddress" THEN t.args.relayAddress ELSE t.args.newOwner

\* The receipt is that of a key registration, and the account it is for.
IsKeyRegistration(t) == t.op \in {"registerPublicKey", "registerPublicKeyFor"}

RegisteredUser(t) == IF t.op = "registerPublicKey" THEN t.caller ELSE t.args.user

\* The PublicKeyRegistered events of account a, in order.
KeyEventsOf(log, a) == SelectSeq(log, LAMBDA ev : ev.user = a)

\* Sequence p is an initial part of sequence q.
IsPrefix(p, q) == Len(p) <= Len(q) /\ SubSeq(q, 1, Len(p)) = p

\* Each entry of sequence q is greater than the one before.
StrictlyIncreasing(q) == \A i \in 1..(Len(q) - 1) : q[i] < q[i + 1]

\* The EmailSent event that describes record `e` stored under `emailId`.
EventOfRecord(emailId, e) ==
    [emailId |-> emailId, sender |-> e.sender, recipient |-> e.recipient,
     ipfsHash |-> e.ipfsHash, timestamp |-> e.timestamp]

\* The ids 1..emailCount, ascending, whose record satisfies Keep.
RecordIdsWhere(Keep(_)) ==
    SelectSeq([k \in 1..emailCount |-> k], LAMBDA k : Keep(emailsAt(k)))

\* The sender, recipient and content pointer a submission asks to record.
SubmittedTriple(t) ==
    <<SubmittedSender(t), t.args.recipient, t.args.ipfsHash>>

\* The same three fields of a stored record.
RecordTriple(e) == <<e.sender, e.recipient, e.ipfsHash>>

\* How many times x occurs in sequence q.
Occurrences(q, x) == Cardinality({i \in 1..Len(q) : q[i] = x})

\* The sum of the lengths of the lists of index f over the accounts in S.
RECURSIVE TotalLength(_, _)
TotalLength(f, S) ==
    IF S = {} THEN 0
    ELSE LET a == CHOOSE x \in S : TRUE
         IN  Len(f[a]) + TotalLength(f, S \ {a})

\* ------------------------------------------------------------------ claims

\* C1: a successful logSend(r, p) called by c returns an id for which
\* getEmail returns sender c, recipient r, content pointer p, a timestamp
\* not earlier than the call and isImmutable = true.
C1_LogSendThenGetEmail ==
    (tx.op = "logSend" /\ tx.ok) =>
        LET e == getEmail(tx.ret)
        IN  /\ e.ok
            /\ e.sender = tx.caller
            /\ e.recipient = tx.args.recipient
            /\ e.ipfsHash = tx.args.ipfsHash
            /\ e.timestamp >= tx.timestamp
            /\ e.isImmutable = TRUE

\* A second logSend, in a later block, from a caller to another account.
C1_Witness ==
    /\ tx.op = "logSend"
    /\ tx.ok
    /\ tx.ret = 2
    /\ tx.caller # tx.args.recipient
    /\ tx.timestamp > DeployTimestamp

\* C2: with N successful submissions so far (one EmailSent event each),
\* getTotalEmails() = N, getEmail(k) succeeds for 1 <= k <= N, getEmail(0)
\* and getEmail(N+1) are rejected, and the ids handed out are 1, 2, ..., N
\* in this order.
C2_DenseIds ==
    LET N == Len(emailSentLog)
    IN  /\ getTotalEmails = N
        /\ \A k \in 1..N : getEmail(k).ok
        /\ ~getEmail(0).ok
        /\ getEmail(0).reason = "Invalid email ID"
        /\ ~getEmail(N + 1).ok
        /\ \A k \in 1..N : emailSentLog[k].emailId = k
        /\ IsSubmission(tx) /\ tx.ok => tx.ret = N

\* Two submissions have succeeded, the second one through the relay.
C2_Witness ==
    /\ Len(emailSentLog) = 2
    /\ tx.op = "logSendFor"
    /\ tx.ok

\* C3: a successful submission gets an id no earlier successful submission
\* got, whatever the order the ledger executes the issued transactions in,
\* and creates exactly one record.
C3_DistinctIds ==
    [][(IsSubmission(tx') /\ tx'.ok) =>
          /\ \A i \in 1..Len(emailSentLog) : emailSentLog[i].emailId # tx'.ret
          /\ tx'.ret \notin DOMAIN emails
          /\ DOMAIN emails' = DOMAIN emails \cup {tx'.ret}
          /\ \A id \in DOMAIN emails : emails'[id] = emails[id]
          /\ emailCount' = emailCount + 1
          /\ Len(emailSentLog') = Len(emailSentLog) + 1]_vars

\* Two submissions from different callers, one direct and one relayed.
C3_Witness ==
    /\ Len(emailSentLog) = 2
    /\ IsSubmission(tx)
    /\ tx.ok
    /\ emailSentLog[1].sender # emailSentLog[2].sender
    /\ emailSentLog[1].emailId # emailSentLog[2].emailId

\* C4: for every account r, getRecipientEmails(r) is the ascending list of
\* exactly the ids whose record has recipient r.
C4_RecipientIndex ==
    \A r \in Addresses :
        getRecipientEmails(r) = RecordIdsWhere(LAMBDA e : e.recipient = r)

\* One account has received two records from two different senders.
C4_Witness ==
    \E r \in Accounts :
        /\ Len(getRecipientEmails(r)) = 2
        /\ emailsAt(1).sender # emailsAt(2).sender

\* C5: what getEmail(id) returned once it returns in every later state,
\* whatever operation is executed; no record is removed.
C5_RecordsImmutable ==
    [][\A id \in 0..(emailCount + 1) :
          getEmail(id).ok => getEmail(id)' = getEmail(id)]_vars

\* Two records exist, a key was registered and the relay was just changed.
C5_Witness ==
    /\ emailCount = 2
    /\ Len(publicKeyRegisteredLog) = 1
    /\ tx.op = "setRelayAddress"
    /\ tx.ok

\* C6: logSendFor and registerPublicKeyFor called by anyone but the current
\* relayAddress revert with "Not authorized relay" and change nothing;
\* logSend and registerPublicKey with valid arguments succeed for any caller.
C6_RelayOnly ==
    [][/\ (IsRelayCall(tx') /\ tx'.caller # relayAddress) =>
              /\ ~tx'.ok
              /\ tx'.reason = "Not authorized relay"
              /\ UNCHANGED ledger
       /\ (/\ tx'.op = "logSend"
           /\ tx'.args.recipient # Zero
           /\ tx'.args.ipfsHash # "") => tx'.ok
       /\ (tx'.op = "registerPublicKey" /\ tx'.args.publicKey # "") =>
              tx'.ok]_vars

\* The owner, who is not the relay, was refused a well-formed logSendFor.
C6_Witness ==
    /\ tx.op = "logSendFor"
    /\ ~tx.ok
    /\ tx.caller = owner
    /\ owner # relayAddress
    /\ logEmailRequire(tx.args.sender, tx.args.recipient, tx.args.ipfsHash) = ""

\* C7: a record with sender a is created, and publicKeys[a] changes, only
\* in a transaction sent by a or by the relayAddress of that moment.
C7_Attribution ==
    [][\A a \in Addresses :
          (\/ \E id \in DOMAIN emails' :
                 /\ emails'[id].sender = a
                 /\ (id \notin DOMAIN emails \/ emails[id] # emails'[id])
           \/ senderEmails'[a] # senderEmails[a]
           \/ publicKeys'[a] # publicKeys[a])
          => /\ tx' # NoTx
             /\ tx'.ok
             /\ (tx'.caller = a \/ tx'.caller = relayAddress)]_vars

\* The relay registered a key for another account.
C7_Witness ==
    /\ tx.op = "registerPublicKeyFor"
    /\ tx.ok
    /\ tx.args.user # tx.caller
    /\ publicKeys[tx.args.user] = tx.args.publicKey

\* C8: setRelayAddress and transferOwnership with the zero address, or
\* called by anyone but the current owner, revert and leave owner and
\* relayAddress as they were.
C8_AdminRejected ==
    [][(IsAdminCall(tx') /\ (AdminArgument(tx') = Zero \/ tx'.caller # owner)) =>
          /\ ~tx'.ok
          /\ owner' = owner
          /\ relayAddress' = relayAddress]_vars

\* The owner itself was refused transferOwnership(address(0)).
C8_Witness ==
    /\ tx.op = "transferOwnership"
    /\ ~tx.ok
    /\ tx.caller = owner
    /\ tx.args.newOwner = Zero

\* C9: a successful setRelayAddress(n) makes n the relay and a successful
\* transferOwnership(n) makes n the owner; the roles change in no other way;
\* and a well-formed relay-only call succeeds exactly when its caller is the
\* relay of that moment, a well-formed owner-only call exactly when its
\* caller is the owner of that moment.  So from a successful change until
\* the next one, n is accepted and the account it replaced is refused.
C9_RolesTakeEffect ==
    [][/\ (tx'.op = "setRelayAddress" /\ tx'.ok) =>
              relayAddress' = tx'.args.relayAddress
       /\ (tx'.op = "transferOwnership" /\ tx'.ok) =>
              owner' = tx'.args.newOwner
       /\ relayAddress' # relayAddress => (tx'.op = "setRelayAddress" /\ tx'.ok)
       /\ owner' # owner => (tx'.op = "transferOwnership" /\ tx'.ok)
       /\ (/\ tx'.op = "logSendFor"
           /\ logEmailRequire(tx'.args.sender, tx'.args.recipient,
                              tx'.args.ipfsHash) = "") =>
              (tx'.ok <=> tx'.caller = relayAddress)
       /\ (/\ tx'.op = "registerPublicKeyFor"
           /\ setPublicKeyRequire(tx'.args.user, tx'.args.publicKey) = "") =>
              (tx'.ok <=> tx'.caller = relayAddress)
       /\ (IsAdminCall(tx') /\ AdminArgument(tx') # Zero) =>
              (tx'.ok <=> tx'.caller = owner)]_vars

\* Right after a successful setRelayAddress(n) by an owner other than n:
\* n passes the relay check and the owner does not.
C9_Witness ==
    /\ tx.op = "setRelayAddress"
    /\ tx.ok
    /\ tx.args.relayAddress # tx.caller
    /\ onlyRelay(tx.args.relayAddress) = ""
    /\ onlyRelay(tx.caller) # ""

\* C10: a submission with a zero sender, a zero recipient or an empty
\* content pointer reverts: storage and both event logs stay as they were.
C10_InvalidSubmissionRejected ==
    [][(/\ IsSubmission(tx')
        /\ \/ SubmittedSender(tx') = Zero
           \/ tx'.args.recipient = Zero
           \/ tx'.args.ipfsHash = "") =>
          /\ ~tx'.ok
          /\ UNCHANGED ledger]_vars

\* The relay itself was refused a logSendFor to address(0), on a ledger
\* that already holds a record and a key.
C10_Witness ==
    /\ tx.op = "logSendFor"
    /\ ~tx.ok
    /\ tx.caller = relayAddress
    /\ tx.args.sender # Zero
    /\ tx.args.recipient = Zero
    /\ tx.args.ipfsHash # ""
    /\ emailCount >= 1
    /\ Len(publicKeyRegisteredLog) >= 1

\* C11 (as the code has it): a successful registration of key B for an
\* account that had key A leaves getPublicKey returning B, and no view
\* function returns A for that account any more; the PublicKeyRegistered
\* event that announced A stays in the event log, where it can be read.
C11_KeyOverwritten ==
    [][(IsKeyRegistration(tx') /\ tx'.ok) =>
          LET a == RegisteredUser(tx')
              A == getPublicKey(a)
              B == tx'.args.publicKey
          IN  /\ publicKeys'[a] = B
              /\ \A b \in Addresses \ {a} : publicKeys'[b] = publicKeys[b]
              /\ A # "" =>
                    \E i \in 1..Len(publicKeyRegisteredLog') :
                        /\ publicKeyRegisteredLog'[i].user = a
                        /\ publicKeyRegisteredLog'[i].publicKey = A]_vars

\* C11 as stated: after B has replaced A, no history of A is retrievable,
\* the event log included.
C11_NoHistoryOfA ==
    [][(IsKeyRegistration(tx') /\ tx'.ok) =>
          LET a == RegisteredUser(tx')
              A == getPublicKey(a)
              B == tx'.args.publicKey
          IN  /\ publicKeys'[a] = B
              /\ (A # "" /\ A # B) =>
                    \A i \in 1..Len(publicKeyRegisteredLog') :
                        ~(/\ publicKeyRegisteredLog'[i].user = a
                          /\ publicKeyRegisteredLog'[i].publicKey = A)]_vars

\* An account registered one key itself, then the relay registered the
\* other key for it.
C11_Witness ==
    /\ tx.op = "registerPublicKeyFor"
    /\ tx.ok
    /\ Len(KeyEventsOf(publicKeyRegisteredLog, tx.args.user)) = 2
    /\ KeyEventsOf(publicKeyRegisteredLog, tx.args.user)[1].publicKey
          # tx.args.publicKey
    /\ getPublicKey(tx.args.user) = tx.args.publicKey

\* C12: registerPublicKey with an empty key reverts and changes nothing;
\* with a non-empty key it succeeds, sets the caller's key, leaves every
\* other account's key alone and appends exactly one PublicKeyRegistered
\* (caller, key, block.timestamp).  So the last PublicKeyRegistered event
\* of an account always carries the key getPublicKey returns for it.
C12_RegisterPublicKey ==
    [][/\ (tx'.op = "registerPublicKey" /\ tx'.args.publicKey = "") =>
              /\ ~tx'.ok
              /\ UNCHANGED ledger
       /\ (tx'.op = "registerPublicKey" /\ tx'.args.publicKey # "") =>
              /\ tx'.ok
              /\ publicKeys' =
                    [publicKeys EXCEPT ![tx'.caller] = tx'.args.publicKey]
              /\ publicKeyRegisteredLog' =
                    Append(publicKeyRegisteredLog,
                           [user |-> tx'.caller,
                            publicKey |-> tx'.args.publicKey,
                            timestamp |-> blockTimestamp])
       /\ \A a \in Addresses :
              LET mine == KeyEventsOf(publicKeyRegisteredLog', a)
              IN  mine # <<>> =>
                     mine[Len(mine)].publicKey = getPublicKey(a)']_vars

\* An account registered a key while the other account holds a different
\* one.
C12_Witness ==
    /\ tx.op = "registerPublicKey"
    /\ tx.ok
    /\ \E b \in Accounts \ {tx.caller} :
          /\ getPublicKey(b) # ""
          /\ getPublicKey(b) # tx.args.publicKey

\* C13: getPublicKey(a) is empty exactly when no PublicKeyRegistered event
\* for a exists (no registration for a ever succeeded), and a key that is
\* not empty never becomes empty.
C13_EmptyIffNeverRegistered ==
    [][\A a \in Addresses :
          /\ (getPublicKey(a)' = "") <=>
                 (KeyEventsOf(publicKeyRegisteredLog', a) = <<>>)
          /\ getPublicKey(a) # "" => getPublicKey(a)' # ""]_vars

\* An account that holds a key was refused the empty key, while the other
\* account never registered one.
C13_Witness ==
    /\ IsKeyRegistration(tx)
    /\ ~tx.ok
    /\ tx.reason = "Public key cannot be empty"
    /\ getPublicKey(RegisteredUser(tx)) # ""
    /\ \E b \in Accounts : getPublicKey(b) = ""

\* C14: in every step the recipient index and the sender index of every
\* account keep what they held as an initial part (so nothing is removed or
\* reordered between any two states), and the ids in one index are
\* strictly increasing.
C14_IndicesAppendOnly ==
    [][\A a \in Addresses :
          /\ IsPrefix(getRecipientEmails(a), getRecipientEmails(a)')
          /\ IsPrefix(getSenderEmails(a), getSenderEmails(a)')
          /\ StrictlyIncreasing(getRecipientEmails(a)')
          /\ StrictlyIncreasing(getSenderEmails(a)')]_vars

\* One account has sent two records, the second one handed in by a relay
\* that is another account.
C14_Witness ==
    /\ tx.op = "logSendFor"
    /\ tx.ok
    /\ tx.caller # tx.args.sender
    /\ getSenderEmails(tx.args.sender) = <<1, 2>>

\* C15: getSenderEmails(s) is the ascending list of exactly the ids whose
\* record has sender s; the id of a successful submission ends up last in
\* the index of the account it is attributed to (the caller of logSend, the
\* _sender argument of logSendFor); and a successful logSend(addrB, cid)
\* from addrA on a contract without records returns 1 and leaves
\* getTotalEmails() = 1, getRecipientEmails(addrB) = [1] and
\* getSenderEmails(addrA) = [1].
C15_SenderIndex ==
    /\ [](\A s \in Addresses :
             getSenderEmails(s) = RecordIdsWhere(LAMBDA e : e.sender = s))
    /\ []((IsSubmission(tx) /\ tx.ok) =>
             LET mine == getSenderEmails(SubmittedSender(tx))
             IN  mine # <<>> /\ mine[Len(mine)] = tx.ret)
    /\ [][(emailCount = 0 /\ tx'.op = "logSend" /\ tx'.ok) =>
             /\ tx'.ret = 1
             /\ getTotalEmails' = 1
             /\ recipientEmails'[tx'.args.recipient] = <<1>>
             /\ senderEmails'[tx'.caller] = <<1>>]_vars

\* One sender has two records, one submitted directly and one through the
\* relay.
C15_Witness ==
    \E s \in Accounts :
        /\ getSenderEmails(s) = <<1, 2>>
        /\ tx.op = "logSendFor"
        /\ tx.ok
        /\ tx.args.sender = s
        /\ tx.caller # s

\* C16: the EmailSent log has exactly emailCount entries and its k-th entry
\* carries the id k and the sender, recipient, content pointer and timestamp
\* of record k; a successful submission appends exactly the one event that
\* describes the record it stored, and no other step changes the log.
C16_EmailSentLog ==
    /\ [](/\ Len(emailSentLog) = emailCount
          /\ \A k \in 1..Len(emailSentLog) :
                emailSentLog[k] = EventOfRecord(k, emailsAt(k)))
    /\ [][IF IsSubmission(tx') /\ tx'.ok
          THEN emailSentLog' =
                  Append(emailSentLog,
                         EventOfRecord(tx'.ret, emails'[tx'.ret]))
          ELSE emailSentLog' = emailSentLog]_vars

\* Two events are in the log, and a submission was just rejected.
C16_Witness ==
    /\ Len(emailSentLog) = 2
    /\ emailSentLog[1].sender # emailSentLog[2].sender
    /\ IsSubmission(tx)
    /\ ~tx.ok

\* C17: the constructor makes its caller the owner; owner changes only in
\* a successful transferOwnership sent by the owner of that moment,
\* relayAddress only in a successful setRelayAddress sent by the owner of
\* that moment; owner is never address(0).
C17_OwnerControlsRoles ==
    /\ [](/\ tx.op = "constructor" => owner = tx.caller
          /\ owner # Zero)
    /\ [][/\ owner' # owner =>
                 /\ tx'.op = "transferOwnership"
                 /\ tx'.ok
                 /\ tx'.caller = owner
          /\ relayAddress' # relayAddress =>
                 /\ tx'.op = "setRelayAddress"
                 /\ tx'.ok
                 /\ tx'.caller = owner]_vars

\* The owner handed ownership to another account, on a ledger whose relay
\* is the former owner.
C17_Witness ==
    /\ tx.op = "transferOwnership"
    /\ tx.ok
    /\ owner = tx.args.newOwner
    /\ owner # tx.caller
    /\ relayAddress = tx.caller

\* What must stay with the user: what users write, the PGP private keys,
\* the wallet private keys and the mnemonics.
SecretStrings ==
    Subjects \cup Bodies
    \cup {PgpPrivateKeyOf[k] : k \in PgpKeyIds}
    \cup {WalletPrivateKeyOf[a] : a \in Accounts}
    \cup {MnemonicOf[a] : a \in Accounts}

\* The strings an endpoint can read off a request it received: the fields
\* of its body (or query) and the fields of the wallet in its Cookie header.
RequestStrings(request) ==
    {request.body[f] : f \in DOMAIN request.body}
    \cup IF request.cookie = NoCookie
         THEN {}
         ELSE LET wallet == JsonParse(decodeURIComponent(request.cookie.value))
              IN  {wallet[f] : f \in DOMAIN wallet}

\* The strings written to the ledger: storage and events.
LedgerStrings ==
    {emailsAt(k).ipfsHash : k \in 1..emailCount}
    \cup {publicKeys[a] : a \in DOMAIN publicKeys}
    \cup {emailSentLog[i].ipfsHash : i \in 1..Len(emailSentLog)}
    \cup {publicKeyRegisteredLog[i].publicKey :
              i \in 1..Len(publicKeyRegisteredLog)}

\* C18: no request a relay endpoint receives, its Cookie header included,
\* and no value written to the ledger contains a message plaintext, a PGP
\* private key, a wallet private key or a mnemonic.
C18_RelayNeverObservesSecrets ==
    /\ relayInbox # NoRequest =>
           RequestStrings(relayInbox) \cap SecretStrings = {}
    /\ LedgerStrings \cap SecretStrings = {}

\* The id the ledger gave the record of a sendEmail call (the return value
\* of the transaction whose hash the call returns).
RecordIdOf(c) == c.transactionHash.ret

\* sendEmail returned: the call is over and did not throw.
SendEmailReturned == call.fn = "sendEmail" /\ call.pc = "done"

\* C19: round trip.  A sender who reads the key of account A gets the key
\* A registered last, Kpub.  Once sendEmail has returned id for a message
\* encrypted under Kpub, getEmail(id) names A as recipient and gives the
\* content id of the upload, fetching that id gives the ciphertext, and
\* decrypting with Kpriv (fetchAndDecryptEmail with Kpriv and its
\* passphrase, by the model's operator and by A's own page) gives the
\* subject and body that were sent.
C19_RoundTrip ==
    /\ [][(/\ call.fn = "sendEmail"
           /\ call.pc = "getPublicKey"
           /\ call' # call) =>
              LET registered == KeyEventsOf(publicKeyRegisteredLog, call.to)
              IN  IF registered = <<>>
                  THEN call'.pc = "failed"
                  ELSE /\ call'.pc = "encryptEmail"
                       /\ call'.recipientPublicKeyArmored =
                              Last(registered).publicKey
                       /\ call'.recipientPublicKeyArmored =
                              getPublicKey(call.to)]_vars
    /\ [](SendEmailReturned =>
            LET Kpub == call.recipientPublicKeyArmored
                Kpriv == PgpPrivateKeyOf[Kpub]
                passphrase == WalletPrivateKeyOf[pgpGenerated[Kpub]]
                onChainEmail == getEmail(RecordIdOf(call))
                ciphertext == fetchFromIPFS(onChainEmail.ipfsHash)
                message == decryptEmail(ciphertext.content, Kpriv, passphrase)
                email == fetchAndDecryptEmail(RecordIdOf(call), Kpriv, passphrase)
            IN  /\ Kpub \in PgpKeyIds
                /\ pgpGenerated[Kpub] \in Accounts
                /\ onChainEmail.ok
                /\ onChainEmail.recipient = call.to
                /\ onChainEmail.ipfsHash = call.ipfsHash
                /\ ~IsThrown(ciphertext)
                /\ ciphertext.content = call.encryptedContent
                /\ ~IsThrown(message)
                /\ message.subject = call.subject
                /\ message.body = call.body
                /\ ~IsThrown(email)
                /\ email.subject = call.subject
                /\ email.body = call.body
                /\ email.to = call.to
                /\ (/\ fetched.fn = "fetchAndDecryptEmail"
                    /\ fetched.emailId = RecordIdOf(call)
                    /\ fetched.recipientPrivateKeyArmored = Kpriv) =>
                       /\ ~IsThrown(fetched.result)
                       /\ fetched.result.subject = call.subject
                       /\ fetched.result.body = call.body)

\* B sent a message to A, and A's page fetched and decrypted it.
C19_Witness ==
    /\ SendEmailReturned
    /\ call.senderAddress # call.to
    /\ call.subject # call.body
    /\ fetched.fn = "fetchAndDecryptEmail"
    /\ fetched.by = call.to
    /\ fetched.emailId = RecordIdOf(call)
    /\ ~IsThrown(fetched.result)
    /\ fetched.result.body = call.body

\* The steps of sendEmail in the order of its code: from each position,
\* the positions the call can be in next.
SendEmailOrder ==
    {<<"getPublicKey", "encryptEmail">>, <<"getPublicKey", "failed">>,
     <<"encryptEmail", "uploadToIPFS">>, <<"encryptEmail", "failed">>,
     <<"uploadToIPFS", "logEmailSendRelay">>, <<"uploadToIPFS", "failed">>,
     <<"logEmailSendRelay", "awaitRelay">>,
     <<"awaitRelay", "done">>, <<"awaitRelay", "failed">>}

\* sendEmail is at or past its submission to the relay.
UploadReturned == call.pc \in {"logEmailSendRelay", "awaitRelay", "done"}

\* C20: sendEmail goes through fetch recipient key, encrypt, upload, submit
\* in this order and for the same message; the upload pins the ciphertext
\* under the content id it returns, which the call keeps; a record enters the ledger
\* through the relay only at the submission of a sendEmail call whose upload
\* returned, with sender = senderAddress, recipient = emailData.to and the
\* content id of that upload; and this is the record whose id sendEmail
\* returns.
C20_SendEmailOrder ==
    /\ [][(call.fn = "sendEmail" /\ ~Idle /\ call' # call) =>
              /\ call'.fn = "sendEmail"
              /\ <<call.pc, call'.pc>> \in SendEmailOrder
              /\ call'.senderAddress = call.senderAddress
              /\ call'.to = call.to
              /\ call'.subject = call.subject
              /\ call'.body = call.body
              /\ IF call.pc = "uploadToIPFS" /\ call'.pc # "failed"
                 THEN /\ call'.ipfsHash \in ContentIds
                      /\ ipfs'[call'.ipfsHash] =
                             PinataContent(call.encryptedContent)
                      /\ call.encryptedContent =
                             encryptEmail(call.subject, call.body,
                                          call.senderAddress, call.to,
                                          call.recipientPublicKeyArmored)
                 ELSE /\ call'.ipfsHash = call.ipfsHash
                      /\ ipfs' = ipfs]_vars
    /\ [][(emailCount' # emailCount /\ tx'.op = "logSendFor") =>
              /\ call.fn = "sendEmail"
              /\ call.pc = "logEmailSendRelay"
              /\ call.ipfsHash \in ContentIds
              /\ ipfs[call.ipfsHash] = PinataContent(call.encryptedContent)
              /\ emailCount' = emailCount + 1
              /\ emails'[emailCount'].sender = call.senderAddress
              /\ emails'[emailCount'].recipient = call.to
              /\ emails'[emailCount'].ipfsHash = call.ipfsHash]_vars
    /\ [](call.fn = "sendEmail" =>
            /\ ~UploadReturned =>
                   call.pc = "failed" \/ call.ipfsHash = ""
            /\ SendEmailReturned =>
                   /\ getEmail(RecordIdOf(call)).ok
                   /\ getEmail(RecordIdOf(call)).sender = call.senderAddress
                   /\ getEmail(RecordIdOf(call)).recipient = call.to
                   /\ getEmail(RecordIdOf(call)).ipfsHash = call.ipfsHash
                   /\ ipfs[call.ipfsHash] =
                          PinataContent(call.encryptedContent))

\* A sendEmail to another account returned after an earlier one had
\* uploaded its ciphertext and then failed at the relay: the record points
\* to the second upload.
C20_Witness ==
    /\ SendEmailReturned
    /\ call.senderAddress # call.to
    /\ call.ipfsHash = "cid2"
    /\ ipfs["cid1"] # NotPinned
    /\ getEmail(RecordIdOf(call)).ipfsHash = "cid2"
    /\ getEmail(RecordIdOf(call)).sender = call.senderAddress

\* C22: the ledger does not deduplicate.  A submission whose sender,
\* recipient and content pointer are those of an existing record is
\* accepted like any other (a direct one always, a relayed one from the
\* relay); it creates a new record with a new id, appended to the
\* recipient's and the sender's index, and leaves the earlier record as it
\* was.  Ids stay dense and both indices stay exact afterwards.
C22_NoDeduplication ==
    /\ [][(/\ IsSubmission(tx')
           /\ tx' # tx
           /\ \E k \in 1..emailCount :
                 RecordTriple(emailsAt(k)) = SubmittedTriple(tx')) =>
              /\ tx'.ok <=> (tx'.op = "logSend" \/ tx'.caller = relayAddress)
              /\ tx'.ok =>
                    /\ tx'.ret = emailCount + 1
                    /\ emailCount' = emailCount + 1
                    /\ RecordTriple(emails'[tx'.ret]) = SubmittedTriple(tx')
                    /\ \A k \in 1..emailCount : emails'[k] = emails[k]
                    /\ recipientEmails' =
                          [recipientEmails EXCEPT ![tx'.args.recipient] =
                              Append(@, tx'.ret)]
                    /\ senderEmails' =
                          [senderEmails EXCEPT ![SubmittedSender(tx')] =
                              Append(@, tx'.ret)]]_vars
    /\ [](/\ \A k \in 1..emailCount : getEmail(k).ok
          /\ DOMAIN emails = 1..emailCount
          /\ \A a \in Addresses :
                /\ getRecipientEmails(a) =
                       RecordIdsWhere(LAMBDA e : e.recipient = a)
                /\ getSenderEmails(a) =
                       RecordIdsWhere(LAMBDA e : e.sender = a))

\* The same sender, recipient and pointer were recorded twice.
C22_Witness ==
    /\ IsSubmission(tx)
    /\ tx.ok
    /\ tx.ret = 2
    /\ RecordTriple(emailsAt(1)) = RecordTriple(emailsAt(2))
    /\ emailSentLog[1].emailId # emailSentLog[2].emailId
    /\ getRecipientEmails(tx.args.recipient) = <<1, 2>>
    /\ getSenderEmails(SubmittedSender(tx)) = <<1, 2>>

\* C29: no record has address(0) as sender or recipient, no event names
\* it, getPublicKey(address(0)) is empty, and a registerPublicKeyFor for
\* address(0) fails, with "Invalid user address" when the relay sends it.
C29_NoZeroAddress ==
    /\ \A k \in 1..emailCount :
          /\ emailsAt(k).sender # Zero
          /\ emailsAt(k).recipient # Zero
    /\ \A i \in 1..Len(emailSentLog) :
          /\ emailSentLog[i].sender # Zero
          /\ emailSentLog[i].recipient # Zero
    /\ \A i \in 1..Len(publicKeyRegisteredLog) :
          publicKeyRegisteredLog[i].user # Zero
    /\ getPublicKey(Zero) = ""
    /\ getRecipientEmails(Zero) = <<>>
    /\ getSenderEmails(Zero) = <<>>
    /\ (tx.op = "registerPublicKeyFor" /\ tx.args.user = Zero) =>
          /\ ~tx.ok
          /\ tx.reason \in {"Not authorized relay", "Invalid user address"}
          /\ tx.caller = relayAddress => tx.reason = "Invalid user address"

\* The relay tried to register a non-empty key for address(0), on a ledger
\* that holds a record.
C29_Witness ==
    /\ tx.op = "registerPublicKeyFor"
    /\ tx.caller = relayAddress
    /\ tx.args.user = Zero
    /\ tx.args.publicKey # ""
    /\ ~tx.ok
    /\ emailCount > 0

\* C30: each id in 1..emailCount occurs once in the recipient index of its
\* record's recipient and once in the sender index of its record's sender,
\* and in no other account's index; the indices hold nothing else; the
\* lengths of the recipient indices sum to emailCount, and so do those of
\* the sender indices.
C30_IndexPartition ==
    /\ \A k \in 1..emailCount, a \in Addresses :
          /\ Occurrences(getRecipientEmails(a), k) =
                 IF a = emailsAt(k).recipient THEN 1 ELSE 0
          /\ Occurrences(getSenderEmails(a), k) =
                 IF a = emailsAt(k).sender THEN 1 ELSE 0
    /\ \A a \in Addresses :
          /\ \A i \in 1..Len(getRecipientEmails(a)) :
                getRecipientEmails(a)[i] \in 1..emailCount
          /\ \A i \in 1..Len(getSenderEmails(a)) :
                getSenderEmails(a)[i] \in 1..emailCount
    /\ TotalLength(recipientEmails, Addresses) = emailCount
    /\ TotalLength(senderEmails, Addresses) = emailCount

\* An account wrote to itself and to the other account: the self-addressed
\* record is in both of its indices.
C30_Witness ==
    /\ emailCount = 2
    /\ \E a \in Accounts, k \in 1..2 :
          /\ emailsAt(k).sender = a
          /\ emailsAt(k).recipient = a
          /\ emailsAt(3 - k).sender = a
          /\ emailsAt(3 - k).recipient # a
          /\ Len(getSenderEmails(a)) = 2
          /\ Len(getRecipientEmails(a)) = 1

\* A request has just been taken up by one of the two POST routes.
WriteRouteTookRequest ==
    /\ relayInbox = NoRequest
    /\ relayInbox' # NoRequest
    /\ relayInbox'.endpoint \in {"send-email", "register-key"}

\* Some field the route requires is missing from the body of the request.
MissingFields(request) == \E f \in DOMAIN request.body : request.body[f] = ""

\* C23: send-email and register-key look at the relay balance before they
\* submit.  Below the minimum they answer with an error (naming the balance
\* when nothing else was wrong) and send no transaction, so the ledger is
\* unchanged; a transaction is sent only with the minimum or more.
C23_BalanceChecked ==
    [][WriteRouteTookRequest =>
          /\ relayInbox'.env.balance < MinRelayBalance =>
                /\ ledger' = ledger
                /\ tx' = tx
                /\ relayInbox'.response.status \in {400, 500}
                /\ (/\ ~MissingFields(relayInbox')
                    /\ relayInbox'.env.relayPrivateKey
                    /\ relayInbox'.env.rpcUrl
                    /\ relayInbox'.env.contractAddress) =>
                       relayInbox'.response =
                           ErrorResponse(500, "Relay wallet balance too low")
          /\ tx' # tx => relayInbox'.env.balance >= MinRelayBalance]_vars

\* A complete send-email request met a configured relay whose balance is
\* just below the minimum, on a ledger that holds a record.
C23_Witness ==
    /\ relayInbox # NoRequest
    /\ relayInbox.endpoint = "send-email"
    /\ ~MissingFields(relayInbox)
    /\ relayInbox.env = [RelayEnvReady EXCEPT !.balance = MinRelayBalance - 1]
    /\ relayInbox.response.status = 500
    /\ emailCount = 1
    /\ tx = NoTx

\* C24: a successful answer of send-email carries the id the ledger gave
\* the record made for this request (sender = userAddress, recipient =
\* recipientAddress, content pointer = ipfsHash), never 0.
C24_RouteReturnsLedgerId ==
    (/\ relayInbox # NoRequest
     /\ relayInbox.endpoint = "send-email"
     /\ relayInbox.response.status = 200) =>
        /\ relayInbox.response.emailId # 0
        /\ relayInbox.response.emailId = tx.ret
        /\ getEmail(relayInbox.response.emailId).sender =
               relayInbox.body.userAddress
        /\ getEmail(relayInbox.response.emailId).recipient =
               relayInbox.body.recipientAddress
        /\ getEmail(relayInbox.response.emailId).ipfsHash =
               relayInbox.body.ipfsHash

\* C27: without the RPC URL or the contract address each of the three
\* routes answers with an error and makes no ledger call (no transaction,
\* no key in the answer); the two POST routes do the same when a required
\* field or the relay credential is missing.
C27_MissingConfigurationRejected ==
    [][(relayInbox = NoRequest /\ relayInbox' # NoRequest) =>
          LET request == relayInbox'
              write == request.endpoint \in {"send-email", "register-key"}
          IN  (\/ ~request.env.rpcUrl
               \/ ~request.env.contractAddress
               \/ write /\ MissingFields(request)
               \/ write /\ ~request.env.relayPrivateKey) =>
                  /\ request.response.status \in {400, 500}
                  /\ "error" \in DOMAIN request.response
                  /\ "publicKey" \notin DOMAIN request.response
                  /\ ledger' = ledger
                  /\ tx' = tx]_vars

\* get-public-key was asked, without an RPC URL, for an account that has a
\* key on the ledger.
C27_Witness ==
    /\ relayInbox # NoRequest
    /\ relayInbox.endpoint = "get-public-key"
    /\ relayInbox.body.address # ""
    /\ getPublicKey(relayInbox.body.address) # ""
    /\ ~relayInbox.env.rpcUrl
    /\ relayInbox.env.contractAddress
    /\ relayInbox.response.status = 500

\* How far into sendEmail a position is.
StepRank ==
    [getPublicKey |-> 1, encryptEmail |-> 2, uploadToIPFS |-> 3,
     logEmailSendRelay |-> 4, awaitRelay |-> 5, done |-> 6, failed |-> 6]

\* sendEmail threw.
SendEmailFailed == call.fn = "sendEmail" /\ call.pc = "failed"

\* C21: in sendEmail every step moves the call forward (no step is taken
\* twice), and a failing step ends it with an error for the caller: the
\* failing step changes neither the content store nor the ledger, nothing
\* of the call runs afterwards, and what was done stays.  So after a relay
\* submission that failed the uploaded blob is still pinned and the call
\* has made no ledger record.
C21_FirstFailureAborts ==
    /\ [][(call.fn = "sendEmail" /\ ~Idle /\ call' # call) =>
              /\ call'.fn = "sendEmail"
              /\ StepRank[call'.pc] > StepRank[call.pc]
              /\ call'.pc = "failed" =>
                    /\ call'.error # ""
                    /\ ipfs' = ipfs
                    /\ ledger' = ledger
                    /\ call'.ipfsHash = call.ipfsHash
                    /\ call'.transactionHash = NoTx]_vars
    /\ [][(/\ call.fn = "sendEmail"
           /\ call.pc = "logEmailSendRelay"
           /\ call' # call
           /\ relayInbox'.response.status # 200) => ledger' = ledger]_vars
    /\ [][SendEmailFailed =>
              /\ call' # call => call'.pc = "getPublicKey"
              /\ \A cid \in ContentIds :
                    ipfs[cid] # NotPinned => ipfs'[cid] = ipfs[cid]
              /\ emailCount' # emailCount => tx'.op = "logSend"
              /\ relayInbox' # relayInbox =>
                    relayInbox'.endpoint = "get-public-key"]_vars
    /\ [](SendEmailFailed =>
              /\ call.error # ""
              /\ call.transactionHash = NoTx
              /\ call.emailId = 0
              /\ call.ipfsHash # "" =>
                    ipfs[call.ipfsHash] = PinataContent(call.encryptedContent))

\* The upload succeeded and the relay, out of funds, refused the
\* submission: a pinned blob, an error, and an empty ledger.
C21_Witness ==
    /\ SendEmailFailed
    /\ call.ipfsHash = "cid1"
    /\ ipfs["cid1"] = PinataContent(call.encryptedContent)
    /\ call.error = "Failed to send via relay: Relay wallet balance too low"
    /\ emailCount = 0
    /\ Len(emailSentLog) = 0

\* handleLogin has warned that the keys were lost, and is the last call.
WarnedLogin == call.fn = "handleLogin" /\ call.alert # ""

\* The PGP private key and its passphrase the account holds in the browser.
HeldKeys(a) ==
    [privateKeyArmored |-> getWalletFromCookies(a).pgpPrivateKey,
     walletPrivateKey |-> getWalletFromCookies(a).privateKey]

\* C26: handleLogin alerts the user exactly when the ledger has a key for
\* the account and localStorage has no key pair; it then generates a new
\* pair, different from the registered one.  No step of a login changes a
\* record or an index.  After the warning, and as long as the account stays
\* logged in, it holds keys with which none of the records addressed to it
\* can be fetched and decrypted.
C26_LostKeysNotRepaired ==
    /\ [][(/\ call.fn = "handleLogin"
           /\ call.pc = "getPublicKey"
           /\ call' # call) =>
              LET a == call.address
                  lost == /\ localStorage[a].pgpKeys = NoItem
                          /\ getPublicKey(a) # ""
              IN  /\ call'.alert = IF lost THEN KeysLostAlert ELSE ""
                  /\ lost =>
                        /\ call'.publicKey # getPublicKey(a)
                        /\ pgpGenerated[call'.publicKey] = ""
                        /\ pgpGenerated'[call'.publicKey] = a
                        /\ localStorage'[a].pgpKeys =
                               PgpKeysItem(PgpPrivateKeyOf[call'.publicKey],
                                           call'.publicKey)
                  /\ ledger' = ledger]_vars
    /\ [][(call.fn = "handleLogin" /\ ~Idle) =>
              /\ \A k \in 1..emailCount : emails'[k] = emails[k]
              /\ call' # call =>
                    /\ emailCount' = emailCount
                    /\ emails' = emails
                    /\ recipientEmails' = recipientEmails
                    /\ senderEmails' = senderEmails]_vars
    /\ [](WarnedLogin /\ Idle /\ getWalletFromCookies(call.address).loggedIn =>
              LET a == call.address
              IN  /\ HeldKeys(a).privateKeyArmored =
                         PgpPrivateKeyOf[call.publicKey]
                  /\ \A i \in 1..Len(getRecipientEmails(a)) :
                        IsThrown(fetchAndDecryptEmail(
                                     getRecipientEmails(a)[i],
                                     HeldKeys(a).privateKeyArmored,
                                     HeldKeys(a).walletPrivateKey)))

\* An account that had written to itself logged out and in again, was
\* warned, and failed to open that message, whose ciphertext is still
\* pinned and was encrypted to the pair the account generated before.
C26_Witness ==
    /\ WarnedLogin
    /\ call.pc = "done"
    /\ fetched.fn = "fetchAndDecryptEmail"
    /\ fetched.by = call.address
    /\ getEmail(fetched.emailId).recipient = call.address
    /\ IsThrown(fetched.result)
    /\ ~IsThrown(fetchFromIPFS(getEmail(fetched.emailId).ipfsHash))
    /\ LET ciphertext == fetchFromIPFS(getEmail(fetched.emailId).ipfsHash)
       IN  /\ pgpGenerated[ciphertext.content.encryptionKey] = call.address
           /\ ciphertext.content.encryptionKey # call.publicKey

\* The callback of pollForNewEmails was passed the record's metadata.
PassedToCallback(emailId) ==
    \E i \in 1..Len(poll.callbacks) :
       \E j \in 1..Len(poll.callbacks[i]) :
          poll.callbacks[i][j].emailId = emailId

\* The record is in the index of the recipient that is being watched.
AddressedToWatched(emailId) ==
    /\ poll.recipientAddress # ""
    /\ \E i \in 1..Len(getRecipientEmails(poll.recipientAddress)) :
          getRecipientEmails(poll.recipientAddress)[i] = emailId

\* C25: while the interval of pollForNewEmails is not cleared, every record
\* addressed to the watched recipient is eventually passed to the callback,
\* also when ledger reads of some polls fail.
C25_AtLeastOnceDelivery ==
    \A emailId \in 1..(MaxPollEmails + 1) :
       AddressedToWatched(emailId) ~>
          (PassedToCallback(emailId) \/ poll.intervalId = "cleared")

\* C28: a call of EmailService.getRecipientEmails or getSenderEmails during
\* which a ledger read failed throws.
C28_ReadFailureSurfaced ==
    (fetched.fn \in {"getRecipientEmails", "getSenderEmails"}
        /\ ~fetched.readOk) => IsThrown(fetched.result)

\* The records, their count and both indices.
mailStorage == <<emails, emailCount, recipientEmails, senderEmails>>

\* C31: a submission leaves publicKeys, owner and relayAddress as they
\* were; a key registration leaves the records, their count, both indices,
\* owner and relayAddress as they were; setRelayAddress changes nothing but
\* relayAddress and transferOwnership nothing but owner; and a step in
\* which no transaction executes (reads included) changes nothing of the
\* ledger.
C31_FrameOfEachOperation ==
    [][/\ IsSubmission(tx') =>
              UNCHANGED <<publicKeys, owner, relayAddress,
                          publicKeyRegisteredLog>>
       /\ IsKeyRegistration(tx') =>
              UNCHANGED <<mailStorage, owner, relayAddress, emailSentLog>>
       /\ tx'.op = "setRelayAddress" =>
              UNCHANGED <<mailStorage, publicKeys, owner, emailSentLog,
                          publicKeyRegisteredLog>>
       /\ tx'.op = "transferOwnership" =>
              UNCHANGED <<mailStorage, publicKeys, relayAddress, emailSentLog,
                          publicKeyRegisteredLog>>
       /\ tx' = NoTx => UNCHANGED ledger]_vars

\* Ownership was handed over on a ledger that holds a record and a key,
\* and whose relay is a third address.
C31_Witness ==
    /\ tx.op = "transferOwnership"
    /\ tx.ok
    /\ owner = tx.args.newOwner
    /\ owner # tx.caller
    /\ relayAddress \notin {owner, tx.caller}
    /\ emailCount > 0
    /\ \E a \in Accounts : publicKeys[a] # ""

\* C32: relayAddress is never address(0), the state right after the
\* constructor included.
C32_RelayNeverZero == relayAddress # Zero

\* sendEmail threw because the recipient has no key.
RefusedForMissingKey == SendEmailFailed /\ call.error = NoRecipientKey

\* C34: when BlockchainService.getPublicKey answers "" for the recipient,
\* which it does exactly when the ledger has no key for it, sendEmail throws
\* at once; it goes on to encrypt only with the key the ledger has.  A call
\* refused this way has encrypted and uploaded nothing and has posted no
\* submission, and does nothing afterwards.
C34_NoKeyNoEmail ==
    /\ [][(/\ call.fn = "sendEmail"
           /\ call.pc = "getPublicKey"
           /\ call' # call) =>
              /\ BlockchainServiceGetPublicKey(relayInbox) = getPublicKey(call.to)
              /\ IF getPublicKey(call.to) = ""
                 THEN /\ call'.pc = "failed"
                      /\ call'.error = NoRecipientKey
                      /\ UNCHANGED <<ledger, ipfs, tx>>
                 ELSE /\ call'.pc = "encryptEmail"
                      /\ call'.recipientPublicKeyArmored = getPublicKey(call.to)]_vars
    /\ [](RefusedForMissingKey =>
              /\ call.encryptedContent = NoContent
              /\ call.ipfsHash = ""
              /\ call.transactionHash = NoTx
              /\ relayInbox = NoRequest)
    /\ [][RefusedForMissingKey =>
              /\ ipfs' = ipfs
              /\ emailCount' # emailCount => tx'.op = "logSend"
              /\ relayInbox' # relayInbox =>
                    relayInbox'.endpoint = "get-public-key"]_vars

\* A logged-in user wrote to an account that never registered a key:
\* nothing is pinned and the ledger has no record.
C34_Witness ==
    /\ RefusedForMissingKey
    /\ call.to \in Accounts
    /\ getWalletFromCookies(call.senderAddress).loggedIn
    /\ \A cid \in ContentIds : ipfs[cid] = NotPinned
    /\ emailCount = 0
    /\ tx = NoTx

\* handleLogin has returned and the account is still logged in.
LoggedInBy(a) ==
    /\ call.fn = "handleLogin"
    /\ call.pc = "done"
    /\ call.address = a
    /\ getWalletFromCookies(a).loggedIn

\* C35: once handleLogin has completed, the key the ledger has for the
\* address is the public key saved in localStorage for it.
C35_LoginLeavesKeyRegistered ==
    \A a \in Accounts :
       LoggedInBy(a) =>
          getPublicKey(a) = getWalletFromCookies(a).pgpPublicKey

RECURSIVE CallbackIds(_)
CallbackIds(cs) ==
    IF cs = <<>>
    THEN <<>>
    ELSE [j \in 1..Len(Head(cs)) |-> Head(cs)[j].emailId]
             \o CallbackIds(Tail(cs))

\* C33: the callback of pollForNewEmails gets no id twice, and gets the
\* ids in increasing order over its successive invocations, also when a
\* run of poll() is still under way when the timer starts the next one.
C33_DeltaInOrder == StrictlyIncreasing(CallbackIds(poll.callbacks))

\* C37: what the callback of a startPollingForEmails call is passed are
\* events for the watched recipient from blocks after the block number at
\* which the call was made, each of them once, also when a timer callback
\* runs before initializePolling has answered or while another is under way.
C37_EventsOfNewBlocksOnce ==
    \A k \in DOMAIN polling.calls :
       LET events == polling.calls[k].callbacks
       IN  /\ \A j \in 1..Len(events) :
                 /\ events[j].recipient = polling.calls[k].recipientAddress
                 /\ events[j].timestamp > polling.calls[k].startBlock
           /\ \A i, j \in 1..Len(events) : i # j => events[i] # events[j]

\* C38: once the cleanup function of a pollForNewEmails or
\* startPollingForEmails call has been invoked, the callback of that call
\* is not invoked again; and the cleanup function of a
\* startPollingForEmails call leaves the interval of a later call running.
C38_CleanupStopsOwnPolling ==
    /\ [][poll.intervalId = "cleared" =>
              poll'.callbacks = poll.callbacks]_vars
    /\ [][\A k \in DOMAIN polling.calls :
             /\ polling.calls[k].cleanedUp =>
                   polling'.calls[k].callbacks = polling.calls[k].callbacks
             /\ (~polling.calls[k].cleanedUp /\ polling'.calls[k].cleanedUp) =>
                   \A j \in polling.intervals :
                      j > k => j \in polling'.intervals]_vars

====
